---- MODULE Spec2Model ----
(***************************************************************************)
(* Real-time participation core of the We All Explain server:              *)
(*   - the persisted Activity document and the Mongoose methods that       *)
(*     mutate it (models/Activity.js),                                     *)
(*   - the HTTP handlers that call them (routes/activities.js, latest      *)
(*     revision, kept in models/ComposedActivity.js from line 1556 on),    *)
(*   - the socket.io handlers, the connection registry, the capacity       *)
(*     counter and the two cleanup timers (websocket-server.js).           *)
(*                                                                         *)
(* Every `await` on the Store is a suspension point: a handler is a task   *)
(* whose steps are the atomic Store operations it issues, and tasks of     *)
(* different requests interleave between those steps.                      *)
(***************************************************************************)
EXTENDS Integers, Sequences, FiniteSets, TLC

VARIABLES
    db,                   \* the persisted Activity document
    tasks,                \* handlers in flight: TaskIds -> task record
    started,              \* number of requests / events handled so far
    nextId,               \* source of fresh rating / comment ids
    resp,                 \* outcome of the handler that finished in the last step
    raced,                \* (user, slot) pairs whose addRating calls overlapped
    lastRated,            \* (user, slot) -> position of the last completed addRating
    connectionCount,      \* websocket-server.js:25
    connections,          \* websocket-server.js:107, socketId -> {userId, activityIds}
    activities,           \* websocket-server.js:108, activityId -> Set of userIds
    operationsInProgress, \* websocket-server.js:26
    sockets,              \* transport state of every socket id
    rooms,                \* socketId -> the rooms the transport has it in
    emits,                \* what the last step sent: to a socket or to a room
    leftCount,            \* participant_left broadcasts per (activityId, userId)
    leaveCalls,           \* leave_activity events received per (activityId, userId)
    isMongoConnected      \* websocket-server.js:111

vars == <<db, tasks, started, nextId, resp, raced, lastRated, connectionCount,
          connections, activities, operationsInProgress, sockets, rooms, emits,
          leftCount, leaveCalls, isMongoConnected>>

storeVars == <<db, nextId, raced, lastRated>>
connVars == <<connectionCount, connections, activities, operationsInProgress,
              sockets, rooms, leftCount, leaveCalls, isMongoConnected>>

----------------------------------------------------------------------------
(* Bounds and input sets *)

\* requests handled in one behaviour of the HTTP API
MaxOps == 2
\* socket events (connection, join_activity, leave_activity, disconnect)
\* handled in one behaviour
MaxEvents == 4
\* the ceiling: process.env.MAX_CONNECTIONS (25 when it is not set)
MAX_CONNECTIONS == 3

TaskIds == {1, 2}
Users == {"A", "B"}
SlotNumbers == {1, 2}
\* coordinates in tenths: 0..10 is the valid range [0,1]
\* what a rating request carries: a position and an objectName
RatingInputs == { [ position |-> [x |-> 2, y |-> 3], objectName |-> "" ],
                  [ position |-> [x |-> 9, y |-> 9], objectName |-> "obj" ] }

\* votesPerUser: null = unlimited votes
Null == -1
maxRetries == 5

\* The one activity of the Store: its custom short id and its Mongo _id
ShortId == "a1"
ObjectId == "oid1"

None == "none"

----------------------------------------------------------------------------
(* Sequence helpers *)

Range(s) == { s[i] : i \in DOMAIN s }

\* Array.prototype.find / findIndex: the first index that passes, 0 if none
FindIndex(s, Test(_)) ==
    IF \E i \in DOMAIN s : Test(s[i])
    THEN CHOOSE i \in DOMAIN s : Test(s[i]) /\ \A j \in 1..(i-1) : ~Test(s[j])
    ELSE 0

Max(a, b) == IF a >= b THEN a ELSE b

----------------------------------------------------------------------------
(* The Activity document (models/Activity.js, ActivitySchema)              *)

\* A freshly created activity: no participants, ratings or comments
NewActivity(votesPerUser, maxEntries) ==
    [ id |-> ShortId, oid |-> ObjectId, version |-> 0, status |-> "active",
      votesPerUser |-> votesPerUser, maxEntries |-> maxEntries,
      participants |-> <<>>, ratings |-> <<>>, comments |-> <<>> ]

NewParticipant(userId) ==
    [ id |-> userId, isConnected |-> TRUE, hasSubmitted |-> FALSE ]

NewRating(ratingId, userId, objectName, slotNumber, position) ==
    [ id |-> ratingId, userId |-> userId, objectName |-> objectName,
      slotNumber |-> slotNumber, position |-> position ]

\* votes: the voters' userIds, in the order the votes were pushed
NewComment(commentId, userId, text, objectName, slotNumber) ==
    [ id |-> commentId, userId |-> userId, text |-> text, objectName |-> objectName,
      slotNumber |-> slotNumber, votes |-> <<>>, voteCount |-> 0 ]

IsParticipant(doc, userId) == \E i \in DOMAIN doc.participants : doc.participants[i].id = userId

----------------------------------------------------------------------------
(* Mongoose document.save(): the update it sends for the paths a method    *)
(* modified, and the version check it attaches to it.  An update is a      *)
(* sequence of operations [op, path, idx, val]; idx is the array index in  *)
(* a positional path (participants.<idx>.isConnected), 0 when the path has *)
(* none.                                                                   *)

Push(path, idx, val) == [ op |-> "$push", path |-> path, idx |-> idx, val |-> val ]
Set(path, idx, val) == [ op |-> "$set", path |-> path, idx |-> idx, val |-> val ]

ArrayPaths == { "comments", "comments.votes", "ratings", "participants" }

VERSION_NONE == {}
VERSION_WHERE == { "where" }
VERSION_INC == { "inc" }
VERSION_ALL == { "where", "inc" }

\* A variant of the versioning in which a $push never checks the version,
\* whatever its path.
OpVersionPushUnchecked(o) ==
    IF o.op = "$push" THEN VERSION_INC
    ELSE IF o.path \in ArrayPaths THEN VERSION_ALL
         ELSE IF o.idx # 0 THEN VERSION_WHERE ELSE VERSION_NONE

\* How one modified path versions the save: a $push below an array index
\* and a $set of a whole array check and increment the version, a $push on
\* a top-level array only increments it, a $set below an array index only
\* checks it.
OpVersion(o) ==
    IF o.op = "$push"
    THEN IF o.idx # 0 THEN VERSION_ALL ELSE VERSION_INC
    ELSE IF o.path \in ArrayPaths THEN VERSION_ALL
         ELSE IF o.idx # 0 THEN VERSION_WHERE ELSE VERSION_NONE

RECURSIVE DeltaVersion(_, _)
DeltaVersion(ops, cur) ==
    IF ops = <<>> THEN cur
    ELSE LET v == OpVersion(Head(ops))
         IN DeltaVersion(Tail(ops),
                IF cur = VERSION_ALL THEN VERSION_ALL
                ELSE IF v = VERSION_NONE THEN cur ELSE v)

\* The Store applying one update operator to the stored document.  An
\* index past the end of the stored array leaves the document unchanged.
ApplyOp(doc, o) ==
    CASE o.path = "participants" /\ o.op = "$push" ->
            [doc EXCEPT !.participants = Append(@, o.val)]
      [] o.path = "participants.isConnected" ->
            IF o.idx \in DOMAIN doc.participants
            THEN [doc EXCEPT !.participants[o.idx].isConnected = o.val] ELSE doc
      [] o.path = "participants.hasSubmitted" ->
            IF o.idx \in DOMAIN doc.participants
            THEN [doc EXCEPT !.participants[o.idx].hasSubmitted = o.val] ELSE doc
      [] o.path = "ratings" /\ o.op = "$set" ->
            [doc EXCEPT !.ratings = o.val]
      [] o.path = "comments" /\ o.op = "$set" ->
            [doc EXCEPT !.comments = o.val]
      [] o.path = "comments" /\ o.op = "$push" ->
            [doc EXCEPT !.comments = Append(@, o.val)]
      [] o.path = "comments.votes" /\ o.op = "$push" ->
            IF o.idx \in DOMAIN doc.comments
            THEN [doc EXCEPT !.comments[o.idx].votes = Append(@, o.val)] ELSE doc
      [] o.path = "comments.votes" /\ o.op = "$set" ->
            IF o.idx \in DOMAIN doc.comments
            THEN [doc EXCEPT !.comments[o.idx].votes = o.val] ELSE doc
      [] o.path = "comments.voteCount" ->
            IF o.idx \in DOMAIN doc.comments
            THEN [doc EXCEPT !.comments[o.idx].voteCount = o.val] ELSE doc
      [] OTHER -> doc

RECURSIVE ApplyOps(_, _)
ApplyOps(doc, ops) ==
    IF ops = <<>> THEN doc ELSE ApplyOps(ApplyOp(doc, Head(ops)), Tail(ops))

\* save() of a document loaded as `loaded`, against the document now
\* stored: nothing is sent when no path was modified; a versioned update
\* whose version no longer matches fails with VersionError.
Save(stored, loaded, ops) ==
    IF ops = <<>> THEN [ error |-> None, doc |-> stored ]
    ELSE LET ver == DeltaVersion(ops, VERSION_NONE)
         IN IF "where" \in ver /\ stored.version # loaded.version
            THEN [ error |-> "VersionError", doc |-> stored ]
            ELSE [ error |-> None,
                   doc |-> [ ApplyOps(stored, ops) EXCEPT
                               !.version = IF "inc" \in ver THEN @ + 1 ELSE @ ] ]

----------------------------------------------------------------------------
(* Document methods of ActivitySchema.  A method that ends in this.save()  *)
(* is modelled by the update its in-memory changes make save() send; the   *)
(* document it was called on is the one the handler loaded from the Store. *)

\* addParticipant: update the existing participant in place, else push a
\* new one.  joinedAt is set to a new Date on both branches, so the
\* existing branch always has a modified path below participants.<i>.
addParticipant(doc, userId) ==
    LET Same(p) == p.id = userId
        i == FindIndex(doc.participants, Same)
    IN IF i # 0
       THEN << Set("participants.isConnected", i, TRUE) >>
       ELSE << Push("participants", 0, NewParticipant(userId)) >>

\* A variant of the method that sets the flag of every participant.
updateEveryConnection(doc, userId, isConnected) ==
    [ i \in DOMAIN doc.participants |-> Set("participants.isConnected", i, isConnected) ]

\* updateParticipantConnection: save() only when the participant exists;
\* assigning the value the flag already has modifies no path.
updateParticipantConnection(doc, userId, isConnected) ==
    LET Same(p) == p.id = userId
        i == FindIndex(doc.participants, Same)
    IN IF i # 0 /\ doc.participants[i].isConnected # isConnected
       THEN << Set("participants.isConnected", i, isConnected) >>
       ELSE << >>

\* A variant of the count that finds no votes.
getUserVoteCountNone(doc, userId) == 0

\* getUserVoteCount: the number of comments the user has a vote on
getUserVoteCount(doc, userId) ==
    Cardinality({ i \in DOMAIN doc.comments : userId \in Range(doc.comments[i].votes) })

\* addComment: filter out the user's comment for the slot, push a fresh
\* one, mark the participant (if any) as having submitted, save.  When the
\* filter removes a comment the assignment modifies `comments` and save()
\* sends the whole array; when it removes none the assignment changes
\* nothing and save() sends the $push alone.
addComment(doc, userId, text, objectName, slotNumber, commentId) ==
    LET Other(c) == ~(c.userId = userId /\ c.slotNumber = slotNumber)
        Same(p) == p.id = userId
        i == FindIndex(doc.participants, Same)
        kept == SelectSeq(doc.comments, Other)
        fresh == NewComment(commentId, userId, text, objectName, slotNumber)
    IN ( IF kept # doc.comments
         THEN << Set("comments", 0, Append(kept, fresh)) >>
         ELSE << Push("comments", 0, fresh) >> ) \o
       ( IF i # 0 /\ ~doc.participants[i].hasSubmitted
         THEN << Set("participants.hasSubmitted", i, TRUE) >> ELSE << >> )

\* A variant of the limit test that lets a voter at the limit through.
voteLimitExceeded(doc, userId) ==
    /\ doc.votesPerUser # Null
    /\ getUserVoteCount(doc, userId) > doc.votesPerUser

\* the vote limit test of voteComment
voteLimitReached(doc, userId) ==
    /\ doc.votesPerUser # Null
    /\ getUserVoteCount(doc, userId) >= doc.votesPerUser

\* voteComment: toggle the user's vote on the comment.  error is the
\* exception thrown before save(), None when save() is reached.
voteComment(doc, commentId, userId) ==
    LET Same(c) == c.id = commentId
        i == FindIndex(doc.comments, Same)
        NotMine(v) == v # userId
    IN IF i = 0 THEN [ error |-> "Comment not found", ops |-> << >> ]
       ELSE LET comment == doc.comments[i]
            IN IF userId \in Range(comment.votes)
               THEN LET count == Max(0, comment.voteCount - 1)
                    IN [ error |-> None,
                         ops |-> << Set("comments.votes", i, SelectSeq(comment.votes, NotMine)) >> \o
                                 ( IF count # comment.voteCount
                                   THEN << Set("comments.voteCount", i, count) >> ELSE << >> ) ]
               ELSE IF voteLimitReached(doc, userId)
               THEN [ error |-> "Vote limit reached", ops |-> << >> ]
               ELSE LET count == Len(comment.votes) + 1
                    IN [ error |-> None,
                         ops |-> << Push("comments.votes", i, userId) >> \o
                                 ( IF count # comment.voteCount
                                   THEN << Set("comments.voteCount", i, count) >> ELSE << >> ) ]

(* addRating issues four Store operations per attempt. *)

\* A variant of the $pull without the userId condition.
pullEveryVote(doc, userId, slotNumber) ==
    [ doc EXCEPT !.comments =
        [ i \in DOMAIN doc.comments |->
            IF doc.comments[i].userId = userId /\ doc.comments[i].slotNumber = slotNumber
            THEN [ doc.comments[i] EXCEPT !.votes = << >> ]
            ELSE doc.comments[i] ] ]

\* 1. findOneAndUpdate $pull: the votes cast by other users on the user's
\*    comment(s) for the slot
pullOthersVotes(doc, userId, slotNumber) ==
    LET Mine(v) == v = userId
    IN [ doc EXCEPT !.comments =
           [ i \in DOMAIN doc.comments |->
               IF doc.comments[i].userId = userId /\ doc.comments[i].slotNumber = slotNumber
               THEN [ doc.comments[i] EXCEPT !.votes = SelectSeq(@, Mine) ]
               ELSE doc.comments[i] ] ]

\* 2. findOne, then voteCount = votes.length on the user's comment(s) for
\*    the slot, then save(): the update save() sends
RECURSIVE recountFrom(_, _, _, _)
recountFrom(doc, userId, slotNumber, i) ==
    IF i > Len(doc.comments) THEN << >>
    ELSE ( IF /\ doc.comments[i].userId = userId
              /\ doc.comments[i].slotNumber = slotNumber
              /\ doc.comments[i].voteCount # Len(doc.comments[i].votes)
           THEN << Set("comments.voteCount", i, Len(doc.comments[i].votes)) >>
           ELSE << >> ) \o recountFrom(doc, userId, slotNumber, i + 1)

recountVotes(doc, userId, slotNumber) == recountFrom(doc, userId, slotNumber, 1)

\* A variant of step 3 whose $pull matches the user's rating by object
\* name instead of by slot.
pullRatingByObject(doc, userId, objectName, slotNumber) ==
    LET Other(r) == ~(r.userId = userId /\ r.objectName = objectName)
    IN [ doc EXCEPT
           !.ratings = SelectSeq(@, Other),
           !.participants =
               [ i \in DOMAIN doc.participants |->
                   IF doc.participants[i].id = userId
                   THEN [ doc.participants[i] EXCEPT !.hasSubmitted = TRUE ]
                   ELSE doc.participants[i] ],
           !.comments =
               [ i \in DOMAIN doc.comments |->
                   IF doc.comments[i].userId = userId /\ doc.comments[i].slotNumber = slotNumber
                   THEN [ doc.comments[i] EXCEPT !.objectName = objectName ]
                   ELSE doc.comments[i] ] ]

\* 3. findOneAndUpdate: $pull the user's rating for the slot, $set
\*    hasSubmitted on the participant and objectName on the sibling comment
pullRating(doc, userId, objectName, slotNumber) ==
    LET Other(r) == ~(r.userId = userId /\ r.slotNumber = slotNumber)
    IN [ doc EXCEPT
           !.ratings = SelectSeq(@, Other),
           !.participants =
               [ i \in DOMAIN doc.participants |->
                   IF doc.participants[i].id = userId
                   THEN [ doc.participants[i] EXCEPT !.hasSubmitted = TRUE ]
                   ELSE doc.participants[i] ],
           !.comments =
               [ i \in DOMAIN doc.comments |->
                   IF doc.comments[i].userId = userId /\ doc.comments[i].slotNumber = slotNumber
                   THEN [ doc.comments[i] EXCEPT !.objectName = objectName ]
                   ELSE doc.comments[i] ] ]

\* 4. findOneAndUpdate: $push the new rating
pushRating(doc, newRating) == [ doc EXCEPT !.ratings = Append(@, newRating) ]

----------------------------------------------------------------------------
(* Handlers in flight *)

NoPosition == [ x |-> -1, y |-> -1 ]
NoDoc == [ id |-> None ]

\* the slotNumber and objectName a client sent, which a handler may or may
\* not pass on to the document method
NoPayload == [ slotNumber |-> 0, objectName |-> "" ]

IdleTask ==
    [ kind |-> "idle", pc |-> "idle", userId |-> None, slotNumber |-> 0,
      position |-> NoPosition, objectName |-> "", commentId |-> 0,
      loaded |-> NoDoc, found |-> NoDoc, retries |-> 0,
      socket |-> 0, activityId |-> None, todo |-> << >>,
      joined |-> << >>, left |-> << >>, failed |-> << >>,
      text |-> "", payload |-> NoPayload, path |-> "", delay |-> 0 ]

NoResp == [ task |-> IdleTask, error |-> None ]

Idle(t) == tasks[t].kind = "idle"
InFlight == { t \in TaskIds : ~Idle(t) }

\* a request is taken up by the lowest free task slot
FreeTask(t) == Idle(t) /\ \A o \in TaskIds : o < t => ~Idle(o)

CanStart == started < MaxOps

\* tasks' when handler t starts as `task`
Begin(t, task) == [ tasks EXCEPT ![t] = task ]

End(t) == [ tasks EXCEPT ![t] = IdleTask ]

Respond(t, error) == [ task |-> tasks[t], error |-> error ]

\* Activity.findOne({ id }) of the HTTP routes, Activity.findById(_id) of
\* the socket handlers: null when no document has that key
findOne(id) == IF db.id = id THEN db ELSE NoDoc
findById(oid) == IF db.oid = oid THEN db ELSE NoDoc

Broadcast(room, event, payload) ==
    [ to |-> room, event |-> event, payload |-> payload ]

----------------------------------------------------------------------------
(* POST /:id/participants *)

HttpAddParticipant(t, userId) ==
    /\ CanStart /\ FreeTask(t)
    /\ started' = started + 1
    /\ tasks' = Begin(t, [ IdleTask EXCEPT !.kind = "participants", !.pc = "save",
                             !.userId = userId, !.loaded = findOne(ShortId) ])
    /\ resp' = NoResp
    /\ emits' = {}
    /\ UNCHANGED <<storeVars, connVars>>

HttpAddParticipantSave(t) ==
    /\ tasks[t].kind = "participants" /\ tasks[t].pc = "save"
    /\ LET r == Save(db, tasks[t].loaded, addParticipant(tasks[t].loaded, tasks[t].userId))
       IN /\ db' = r.doc
          /\ resp' = Respond(t, r.error)
    /\ tasks' = End(t)
    /\ emits' = {}
    /\ UNCHANGED <<started, nextId, raced, lastRated, connVars>>

----------------------------------------------------------------------------
(* POST /:id/rating *)

ValidPosition(position) ==
    position.x >= 0 /\ position.x <= 10 /\ position.y >= 0 /\ position.y <= 10

\* the 400 the route answers with before calling addRating, None if none
RatingRejection(doc, userId, position, slotNumber) ==
    IF ~ValidPosition(position) THEN "Position coordinates must be between 0 and 1"
    ELSE IF slotNumber < 1 \/ slotNumber > 4 THEN "Slot number must be an integer between 1 and 4"
    ELSE IF doc.status # "active" THEN "Activity is not active"
    ELSE IF slotNumber > doc.maxEntries THEN "This activity only allows fewer entry slots"
    ELSE IF ~IsParticipant(doc, userId) THEN "User is not a participant in this activity"
    ELSE None

RatingInFlight(userId, slotNumber) ==
    \E o \in TaskIds : /\ tasks[o].kind = "rating" /\ tasks[o].userId = userId
                       /\ tasks[o].slotNumber = slotNumber

HttpRating(t, userId, position, objectName, slotNumber) ==
    /\ CanStart /\ FreeTask(t)
    /\ started' = started + 1
    /\ LET doc == findOne(ShortId)
           rejection == RatingRejection(doc, userId, position, slotNumber)
           task == [ IdleTask EXCEPT !.kind = "rating", !.pc = "pull_votes",
                       !.userId = userId, !.position = position,
                       !.objectName = objectName, !.slotNumber = slotNumber,
                       !.payload = [ slotNumber |-> slotNumber, objectName |-> objectName ],
                       !.path = "http", !.loaded = doc ]
       IN IF rejection # None
          THEN /\ resp' = [ task |-> task, error |-> rejection ]
               /\ UNCHANGED <<tasks, raced>>
          ELSE /\ resp' = NoResp
               /\ tasks' = Begin(t, task)
               /\ raced' = IF RatingInFlight(userId, slotNumber)
                           THEN raced \cup { <<userId, slotNumber>> } ELSE raced
    /\ emits' = {}
    /\ UNCHANGED <<db, nextId, lastRated, connVars>>

\* A variant of the test that retries whatever was thrown.
RetriedAlways(error, retries) == retries < maxRetries - 1

\* (error.name === 'VersionError' || error.code === 11000) &&
\* retries < maxRetries - 1
Retried(error, retries) ==
    error \in { "VersionError", "E11000" } /\ retries < maxRetries - 1

\* the milliseconds addRating waits before its next attempt, after retries++
backoff(retries) == 50 + (retries * 100)

\* addRating's catch block, and the route's or the socket handler's when
\* addRating throws: tasks' and resp'
Catch(t, error) ==
    IF Retried(error, tasks[t].retries)
    THEN /\ tasks' = [ tasks EXCEPT ![t].pc = "pull_votes", ![t].found = NoDoc,
                                    ![t].retries = @ + 1,
                                    ![t].delay = backoff(tasks[t].retries + 1) ]
         /\ resp' = NoResp
    ELSE /\ tasks' = End(t)
         /\ resp' = Respond(t, error)

\* addRating, step 1
AddRatingPullVotes(t) ==
    /\ tasks[t].kind = "rating" /\ tasks[t].pc = "pull_votes"
    /\ db' = pullOthersVotes(db, tasks[t].userId, tasks[t].slotNumber)
    /\ tasks' = [ tasks EXCEPT ![t].pc = "find" ]
    /\ resp' = NoResp
    /\ emits' = {}
    /\ UNCHANGED <<started, nextId, raced, lastRated, connVars>>

\* addRating, step 2: findOne; with no voteCount to correct, save() sends
\* nothing and the attempt moves on
AddRatingFind(t) ==
    /\ tasks[t].kind = "rating" /\ tasks[t].pc = "find"
    /\ tasks' = [ tasks EXCEPT
                    ![t].found = IF recountVotes(db, tasks[t].userId, tasks[t].slotNumber) = << >>
                               THEN NoDoc ELSE db,
                    ![t].pc = IF recountVotes(db, tasks[t].userId, tasks[t].slotNumber) = << >>
                              THEN "pull_rating" ELSE "recount" ]
    /\ resp' = NoResp
    /\ emits' = {}
    /\ UNCHANGED <<storeVars, started, connVars>>

\* addRating, step 2: activity.save(); a VersionError is retried while
\* retries < maxRetries - 1 and thrown to the route otherwise
AddRatingRecount(t) ==
    /\ tasks[t].kind = "rating" /\ tasks[t].pc = "recount"
    /\ LET r == Save(db, tasks[t].found,
                     recountVotes(tasks[t].found, tasks[t].userId, tasks[t].slotNumber))
       IN /\ db' = r.doc
          /\ IF r.error = None
             THEN /\ tasks' = [ tasks EXCEPT ![t].pc = "pull_rating", ![t].found = NoDoc ]
                  /\ resp' = NoResp
             ELSE Catch(t, r.error)
    /\ emits' = {}
    /\ UNCHANGED <<started, nextId, raced, lastRated, connVars>>

\* a Store operation of addRating fails for a reason other than a write
\* conflict and leaves the Store as it was
AddRatingThrows(t) ==
    /\ tasks[t].kind = "rating"
    /\ Catch(t, "MongoNetworkError")
    /\ emits' = {}
    /\ UNCHANGED <<storeVars, started, connVars>>

\* addRating, step 3
AddRatingPullRating(t) ==
    /\ tasks[t].kind = "rating" /\ tasks[t].pc = "pull_rating"
    /\ db' = pullRating(db, tasks[t].userId, tasks[t].objectName, tasks[t].slotNumber)
    /\ tasks' = [ tasks EXCEPT ![t].pc = "push" ]
    /\ resp' = NoResp
    /\ emits' = {}
    /\ UNCHANGED <<started, nextId, raced, lastRated, connVars>>

\* addRating, step 4, and the caller's broadcasts: the route reads the
\* rating and the sibling comment from the document addRating returns, the
\* socket handler reads the user's first rating from the document it
\* loaded, which addRating does not touch
AddRatingPush(t) ==
    /\ tasks[t].kind = "rating" /\ tasks[t].pc = "push"
    /\ LET task == tasks[t]
           rating == NewRating(nextId, task.userId, task.objectName, task.slotNumber, task.position)
           final == pushRating(db, rating)
           Mine(r) == r.userId = task.userId /\ r.slotNumber = task.slotNumber
           Sibling(c) == c.userId = task.userId /\ c.slotNumber = task.slotNumber
           ByUser(x) == x.userId = task.userId
           r == FindIndex(final.ratings, Mine)
           c == FindIndex(final.comments, Sibling)
           old == FindIndex(task.loaded.ratings, ByUser)
       IN /\ db' = final
          /\ emits' = IF task.path = "ws"
                      THEN ( IF old # 0
                             THEN { Broadcast(task.activityId, "rating_added",
                                              task.loaded.ratings[old]) }
                             ELSE {} )
                      ELSE { Broadcast(ShortId, "rating_added", final.ratings[r]) } \cup
                           ( IF c # 0
                             THEN { Broadcast(ShortId, "comment_updated", final.comments[c]) }
                             ELSE {} )
          /\ lastRated' = [ lastRated EXCEPT ![<<task.userId, task.slotNumber>>] = task.position ]
    /\ nextId' = nextId + 1
    /\ resp' = Respond(t, None)
    /\ tasks' = End(t)
    /\ UNCHANGED <<started, raced, connVars>>

----------------------------------------------------------------------------
(* POST /:id/comment *)

\* Comment texts a client can send: an ordinary one, one that is blank
\* once trimmed, and LongText, which stands for one of 501 characters
LongText == "long"
Texts == { "hello", " ", LongText }

Trim(text) == IF text = " " THEN "" ELSE text
TooLong(text) == text = LongText

\* the 400 the route answers with before it reads the activity
TextRejection(text) ==
    IF Trim(text) = "" THEN "Comment text cannot be empty"
    ELSE IF TooLong(text) THEN "Comment must be less than 500 characters"
    ELSE None

\* comments.text of the schema (required, trim, maxlength 500), validated
\* by save()
ValidText(text) == Trim(text) # "" /\ ~TooLong(text)

CommentRejection(doc, userId, slotNumber) ==
    IF slotNumber < 1 \/ slotNumber > 4 THEN "Slot number must be an integer between 1 and 4"
    ELSE IF doc.status # "active" THEN "Activity is not active"
    ELSE IF slotNumber > doc.maxEntries THEN "This activity only allows fewer entry slots"
    ELSE IF ~IsParticipant(doc, userId) THEN "User is not a participant in this activity"
    ELSE None

HttpComment(t, userId, text, objectName, slotNumber) ==
    /\ CanStart /\ FreeTask(t)
    /\ started' = started + 1
    /\ LET doc == findOne(ShortId)
           rejection == IF TextRejection(text) # None THEN TextRejection(text)
                        ELSE CommentRejection(doc, userId, slotNumber)
           task == [ IdleTask EXCEPT !.kind = "comment", !.pc = "save", !.userId = userId,
                       !.objectName = objectName, !.slotNumber = slotNumber,
                       !.text = Trim(text),
                       !.payload = [ slotNumber |-> slotNumber, objectName |-> objectName ],
                       !.path = "http", !.loaded = doc ]
       IN IF rejection # None
          THEN /\ resp' = [ task |-> task, error |-> rejection ]
               /\ UNCHANGED tasks
          ELSE /\ resp' = NoResp
               /\ tasks' = Begin(t, task)
    /\ emits' = {}
    /\ UNCHANGED <<storeVars, connVars>>

\* activity.addComment(...) on the loaded document and its save(), which
\* validates the new comment's text first, and the caller's broadcast: the
\* route looks the comment up by user and slot, the socket handler by user
HttpCommentSave(t) ==
    /\ tasks[t].kind = "comment" /\ tasks[t].pc = "save"
    /\ LET task == tasks[t]
           ops == addComment(task.loaded, task.userId, Trim(task.text), task.objectName,
                             task.slotNumber, nextId)
           r == IF ValidText(task.text) THEN Save(db, task.loaded, ops)
                ELSE [ error |-> "ValidationError", doc |-> db ]
           Mine(c) == c.userId = task.userId /\ c.slotNumber = task.slotNumber
           ByUser(c) == c.userId = task.userId
           updated == ApplyOps(task.loaded, ops)
       IN /\ db' = r.doc
          /\ resp' = Respond(t, r.error)
          /\ emits' = IF r.error # None THEN {}
                      ELSE IF task.path = "ws"
                      THEN { Broadcast(task.activityId, "comment_added",
                                       updated.comments[FindIndex(updated.comments, ByUser)]) }
                      ELSE { Broadcast(ShortId, "comment_added",
                                       updated.comments[FindIndex(updated.comments, Mine)]) }
    /\ nextId' = nextId + 1
    /\ tasks' = End(t)
    /\ UNCHANGED <<started, raced, lastRated, connVars>>

----------------------------------------------------------------------------
(* POST /:id/comment/:commentId/vote *)

VoteRejection(doc, userId) ==
    IF doc.status # "active" THEN "Activity is not active"
    ELSE IF ~IsParticipant(doc, userId) THEN "User is not a participant in this activity"
    ELSE None

\* the comment ids a client can name: those of the stored comments, and
\* one that names no comment
CommentIds == { db.comments[i].id : i \in DOMAIN db.comments } \cup { 0 }

HttpVote(t, userId, commentId) ==
    /\ CanStart /\ FreeTask(t)
    /\ started' = started + 1
    /\ LET doc == findOne(ShortId)
           rejection == VoteRejection(doc, userId)
           task == [ IdleTask EXCEPT !.kind = "vote", !.pc = "save", !.userId = userId,
                       !.commentId = commentId, !.loaded = doc ]
       IN IF rejection # None
          THEN /\ resp' = [ task |-> task, error |-> rejection ]
               /\ UNCHANGED tasks
          ELSE /\ resp' = NoResp
               /\ tasks' = Begin(t, task)
    /\ emits' = {}
    /\ UNCHANGED <<storeVars, connVars>>

\* activity.voteComment(...) on the loaded document, its save(), and the
\* route's broadcast of the loaded document's comment
HttpVoteSave(t) ==
    /\ tasks[t].kind = "vote" /\ tasks[t].pc = "save"
    /\ LET task == tasks[t]
           vote == voteComment(task.loaded, task.commentId, task.userId)
           r == IF vote.error # None THEN [ error |-> vote.error, doc |-> db ]
                ELSE Save(db, task.loaded, vote.ops)
           Same(c) == c.id = task.commentId
           updated == ApplyOps(task.loaded, vote.ops)
       IN /\ db' = r.doc
          /\ resp' = Respond(t, r.error)
          /\ emits' = IF r.error = None
                      THEN { Broadcast(ShortId, "comment_voted",
                                       updated.comments[FindIndex(updated.comments, Same)]) }
                      ELSE {}
    /\ tasks' = End(t)
    /\ UNCHANGED <<started, nextId, raced, lastRated, connVars>>

----------------------------------------------------------------------------
(* DELETE /:id/slot *)

\* the route's two filters on the loaded document, as the update its
\* save() sends: an array the filter shortened is written back whole
clearSlot(doc, userId, slotNumber) ==
    LET Other(x) == ~(x.userId = userId /\ x.slotNumber = slotNumber)
        ratings == SelectSeq(doc.ratings, Other)
        comments == SelectSeq(doc.comments, Other)
    IN ( IF ratings # doc.ratings THEN << Set("ratings", 0, ratings) >> ELSE << >> ) \o
       ( IF comments # doc.comments THEN << Set("comments", 0, comments) >> ELSE << >> )

HttpClearSlot(t, userId, slotNumber) ==
    /\ CanStart /\ FreeTask(t)
    /\ started' = started + 1
    /\ tasks' = Begin(t, [ IdleTask EXCEPT !.kind = "slot", !.pc = "save",
                             !.userId = userId, !.slotNumber = slotNumber,
                             !.path = "http", !.loaded = findOne(ShortId) ])
    /\ resp' = NoResp
    /\ emits' = {}
    /\ UNCHANGED <<storeVars, connVars>>

HttpClearSlotSave(t) ==
    /\ tasks[t].kind = "slot" /\ tasks[t].pc = "save"
    /\ LET task == tasks[t]
           ops == clearSlot(task.loaded, task.userId, task.slotNumber)
           r == Save(db, task.loaded, ops)
       IN /\ db' = r.doc
          /\ resp' = Respond(t, r.error)
          /\ emits' = IF r.error = None
                      THEN { Broadcast(ShortId, "activity_updated",
                                       ApplyOps(task.loaded, ops)) }
                      ELSE {}
    /\ tasks' = End(t)
    /\ UNCHANGED <<started, nextId, raced, lastRated, connVars>>

----------------------------------------------------------------------------
(* socket.on('submit_rating') and socket.on('submit_comment'): the event   *)
(* and the findById inside safeDbOperation.  The handlers read activityId, *)
(* userId and position or text from the payload and call the document     *)
(* method without objectName and slotNumber, which it takes as '' and 1.   *)

\* A variant of the lookup that does not test the Store connection.
safeFindByIdConnected(activityId) == findById(activityId)

\* safeDbOperation around Activity.findById(activityId): the document, or
\* NoDoc when the operation is skipped, finds nothing, or findById throws
\* on a key that is not a Mongo _id
safeFindById(activityId) ==
    IF ~isMongoConnected THEN NoDoc ELSE findById(activityId)

SubmitRating(t, s, activityId, userId, position, payload) ==
    /\ sockets[s] = "connected"
    /\ CanStart /\ FreeTask(t)
    /\ started' = started + 1
    /\ LET doc == safeFindById(activityId)
           task == [ IdleTask EXCEPT !.kind = "rating", !.pc = "pull_votes",
                       !.userId = userId, !.position = position,
                       !.objectName = "", !.slotNumber = 1,
                       !.payload = payload, !.path = "ws",
                       !.socket = s, !.activityId = activityId, !.loaded = doc ]
       IN IF doc = NoDoc \/ ~IsParticipant(doc, userId)
          THEN /\ resp' = [ task |-> task, error |-> "skipped" ]
               /\ UNCHANGED <<tasks, raced>>
          ELSE /\ resp' = NoResp
               /\ tasks' = Begin(t, task)
               /\ raced' = IF RatingInFlight(userId, 1)
                           THEN raced \cup { <<userId, 1>> } ELSE raced
    /\ emits' = {}
    /\ UNCHANGED <<db, nextId, lastRated, connVars>>

SubmitComment(t, s, activityId, userId, text, payload) ==
    /\ sockets[s] = "connected"
    /\ CanStart /\ FreeTask(t)
    /\ started' = started + 1
    /\ LET doc == safeFindById(activityId)
           task == [ IdleTask EXCEPT !.kind = "comment", !.pc = "save",
                       !.userId = userId, !.text = text,
                       !.objectName = "", !.slotNumber = 1,
                       !.payload = payload, !.path = "ws",
                       !.socket = s, !.activityId = activityId, !.loaded = doc ]
       IN IF doc = NoDoc \/ ~IsParticipant(doc, userId)
          THEN /\ resp' = [ task |-> task, error |-> "skipped" ]
               /\ UNCHANGED tasks
          ELSE /\ resp' = NoResp
               /\ tasks' = Begin(t, task)
    /\ emits' = {}
    /\ UNCHANGED <<storeVars, connVars>>

----------------------------------------------------------------------------
(* Initial states *)

\* one socket more than the ceiling admits
SocketIds == 1..(MAX_CONNECTIONS + 1)
\* a well-formed _id that no activity has
MissingId == "oid2"

ActivityIds == { ObjectId, MissingId }

\* activityIds and userIds a client can send in which '_' occurs
KeyActivityIds == { "x", "x_y" }
KeyUsers == { "y_z", "z" }

\* the (activityId, userId) pairs of the join and leave events
LeaveKeys == (ActivityIds \cup KeyActivityIds) \X (Users \cup KeyUsers)

\* An activity as its operator created it
Created == NewActivity(Null, 1)

\* An activity with a vote cap of one and two slots, after A and B joined,
\* A rated and commented slot 1, B commented slot 1 and voted on A's
\* comment, each request having completed before the next one started
InUse ==
    LET d0 == NewActivity(1, 2)
        d1 == Save(d0, d0, addParticipant(d0, "A")).doc
        d2 == Save(d1, d1, addParticipant(d1, "B")).doc
        d3 == pushRating(pullRating(pullOthersVotes(d2, "A", 1), "A", "", 1),
                         NewRating(1, "A", "", 1, [x |-> 2, y |-> 3]))
        d4 == Save(d3, d3, addComment(d3, "A", "first", "", 1, 2)).doc
        d5 == Save(d4, d4, addComment(d4, "B", "second", "", 1, 3)).doc
        d6 == Save(d5, d5, voteComment(d5, 2, "B").ops).doc
    IN d6

\* The same activity after its operator has set its status to completed
Closed == [ InUse EXCEPT !.status = "completed" ]

\* An activity with two entry slots in which A has rated and commented
\* both slots and B the first
TwoSlots ==
    LET d1 == pushRating(pullRating(pullOthersVotes(InUse, "A", 2), "A", "", 2),
                         NewRating(4, "A", "", 2, [x |-> 9, y |-> 9]))
        d2 == Save(d1, d1, addComment(d1, "A", "third", "", 2, 5)).doc
    IN pushRating(pullRating(pullOthersVotes(d2, "B", 1), "B", "", 1),
                  NewRating(6, "B", "", 1, [x |-> 2, y |-> 3]))

FirstFreeId(doc) ==
    1 + Max(Len(doc.ratings) + Len(doc.comments), 0)

\* An activity A has joined through POST /:id/participants
Joined == Save(Created, Created, addParticipant(Created, "A")).doc

\* the state after the server has started on a Store holding `doc` and
\* admitted the sockets in `live`, with the Store connection established
\* or not
Booted(doc, live, connected, count) ==
    /\ db = doc
    /\ nextId = FirstFreeId(db)
    /\ tasks = [ t \in TaskIds |-> IdleTask ]
    /\ started = count
    /\ resp = NoResp
    /\ raced = {}
    /\ lastRated = [ k \in Users \X SlotNumbers |->
                       LET Mine(r) == r.userId = k[1] /\ r.slotNumber = k[2]
                           i == FindIndex(db.ratings, Mine)
                       IN IF i = 0 THEN NoPosition ELSE db.ratings[i].position ]
    /\ connectionCount = Cardinality(live)
    /\ connections = [ s \in live |-> [ userId |-> None, activityIds |-> << >> ] ]
    /\ activities = [ a \in {} |-> {} ]
    /\ operationsInProgress = {}
    /\ sockets = [ s \in SocketIds |-> IF s \in live THEN "connected" ELSE "new" ]
    /\ rooms = [ s \in SocketIds |-> {} ]
    /\ emits = {}
    /\ leftCount = [ k \in LeaveKeys |-> 0 ]
    /\ leaveCalls = [ k \in LeaveKeys |-> 0 ]
    /\ isMongoConnected = connected

Started(doc, live, connected) == Booted(doc, live, connected, 0)

InitWith(doc, live) == Started(doc, live, TRUE)

InitFrom(doc) == InitWith(doc, {})

Init == \E doc \in { Created, InUse } : InitFrom(doc)

\* a client is connected to an activity in use, or to one its operator
\* has closed
SubmitInit == \E doc \in { InUse, Closed } : InitWith(doc, {1})

ConnInit == InitFrom(Joined)

----------------------------------------------------------------------------
(* The HTTP API over the Store *)

Next ==
    \E t \in TaskIds :
        \/ \E userId \in Users : HttpAddParticipant(t, userId)
        \/ HttpAddParticipantSave(t)
        \/ \E userId \in Users, input \in RatingInputs, slotNumber \in SlotNumbers :
                HttpRating(t, userId, input.position, input.objectName, slotNumber)
        \/ AddRatingPullVotes(t)
        \/ AddRatingFind(t)
        \/ AddRatingRecount(t)
        \/ AddRatingPullRating(t)
        \/ AddRatingPush(t)
        \/ \E userId \in Users, text \in Texts, slotNumber \in SlotNumbers :
                HttpComment(t, userId, text, "", slotNumber)
        \/ HttpCommentSave(t)
        \/ \E userId \in Users, commentId \in CommentIds : HttpVote(t, userId, commentId)
        \/ HttpVoteSave(t)

Spec == Init /\ [][Next]_vars

----------------------------------------------------------------------------
(* Submissions over the socket next to the same submissions over HTTP *)

\* a position outside the unit square
OutOfRange == [ x |-> 12, y |-> 3 ]

SubmitInputs ==
    { [ position |-> [x |-> 9, y |-> 9], objectName |-> "obj" ],
      [ position |-> OutOfRange, objectName |-> "" ] }

SubmitNext ==
    \E t \in TaskIds :
        \/ \E userId \in Users, input \in SubmitInputs, slotNumber \in SlotNumbers :
                HttpRating(t, userId, input.position, input.objectName, slotNumber)
        \/ \E s \in SocketIds, userId \in Users, input \in SubmitInputs,
               slotNumber \in SlotNumbers :
                SubmitRating(t, s, ObjectId, userId, input.position,
                             [ slotNumber |-> slotNumber, objectName |-> input.objectName ])
        \/ AddRatingPullVotes(t)
        \/ AddRatingFind(t)
        \/ AddRatingRecount(t)
        \/ AddRatingPullRating(t)
        \/ AddRatingPush(t)
        \/ \E userId \in Users, text \in Texts, input \in SubmitInputs,
               slotNumber \in SlotNumbers :
                HttpComment(t, userId, text, input.objectName, slotNumber)
        \/ \E s \in SocketIds, userId \in Users, text \in Texts, input \in SubmitInputs,
               slotNumber \in SlotNumbers :
                SubmitComment(t, s, ObjectId, userId, text,
                              [ slotNumber |-> slotNumber, objectName |-> input.objectName ])
        \/ HttpCommentSave(t)
        \/ \E userId \in Users, commentId \in CommentIds : HttpVote(t, userId, commentId)
        \/ HttpVoteSave(t)

SubmitSpec == SubmitInit /\ [][SubmitNext]_vars

----------------------------------------------------------------------------
(* A submitRating, then votes that its attempts can meet as conflicting *)
(* writes                                                              *)

\* one request for each attempt of addRating, and the rating request
RetryOps == maxRetries + 1

RetryInit == Booted(InUse, {}, TRUE, MaxOps - RetryOps)

RetryNext ==
    \E t \in TaskIds :
        \/ /\ started = MaxOps - RetryOps
           /\ HttpRating(t, "A", [x |-> 9, y |-> 9], "", 1)
        \/ AddRatingPullVotes(t)
        \/ AddRatingFind(t)
        \/ AddRatingRecount(t)
        \/ AddRatingThrows(t)
        \/ AddRatingPullRating(t)
        \/ AddRatingPush(t)
        \/ /\ started > MaxOps - RetryOps
           /\ \E commentId \in CommentIds \ {0} : HttpVote(t, "B", commentId)
        \/ HttpVoteSave(t)

RetrySpec == RetryInit /\ [][RetryNext]_vars

\* every Store operation a handler awaits is answered
RetryFairness ==
    \A t \in TaskIds :
        WF_vars(AddRatingPullVotes(t) \/ AddRatingFind(t) \/ AddRatingRecount(t)
                  \/ AddRatingPullRating(t) \/ AddRatingPush(t))

FairRetrySpec == RetrySpec /\ RetryFairness

----------------------------------------------------------------------------
(* Clearing a slot next to the submissions of the same and of other users *)

ClearInit == InitFrom(TwoSlots)

ClearNext ==
    \E t \in TaskIds :
        \/ \E userId \in Users, slotNumber \in SlotNumbers :
                HttpClearSlot(t, userId, slotNumber)
        \/ HttpClearSlotSave(t)
        \/ \E userId \in Users, input \in RatingInputs, slotNumber \in SlotNumbers :
                HttpRating(t, userId, input.position, input.objectName, slotNumber)
        \/ AddRatingPullVotes(t)
        \/ AddRatingFind(t)
        \/ AddRatingRecount(t)
        \/ AddRatingPullRating(t)
        \/ AddRatingPush(t)
        \/ \E userId \in Users, slotNumber \in SlotNumbers :
                HttpComment(t, userId, "hello", "", slotNumber)
        \/ HttpCommentSave(t)
        \/ \E userId \in Users, commentId \in CommentIds : HttpVote(t, userId, commentId)
        \/ HttpVoteSave(t)

ClearSpec == ClearInit /\ [][ClearNext]_vars

----------------------------------------------------------------------------
(* Connection registry and capacity counter (websocket-server.js) *)

\* A variant of the soft limit that rounds up.
SOFT_LIMIT_UP == ((MAX_CONNECTIONS * 8) + 9) \div 10

\* Math.floor(MAX_CONNECTIONS * 0.8)
SOFT_LIMIT == (MAX_CONNECTIONS * 8) \div 10

\* Map.set / Map.delete on connections and activities
MapSet(m, k, v) == [ x \in DOMAIN m \cup {k} |-> IF x = k THEN v ELSE m[x] ]
MapDelete(m, k) == [ x \in DOMAIN m \ {k} |-> m[x] ]

\* Set.add on connection.activityIds, which iterates in insertion order
SetAdd(s, e) == IF e \in Range(s) THEN s ELSE Append(s, e)
SetDelete(s, e) == LET Keep(x) == x # e IN SelectSeq(s, Keep)

\* activities.get(activityId).delete(userId), and the entry with it once
\* it is empty
RemoveMember(acts, activityId, userId) ==
    IF activityId \notin DOMAIN acts THEN acts
    ELSE IF acts[activityId] \ {userId} = {} THEN MapDelete(acts, activityId)
    ELSE MapSet(acts, activityId, acts[activityId] \ {userId})

AddMember(acts, activityId, userId) ==
    MapSet(acts, activityId,
           (IF activityId \in DOMAIN acts THEN acts[activityId] ELSE {}) \cup {userId})

\* io.sockets.sockets
LiveSockets == { s \in SocketIds : sockets[s] = "connected" }

Emit(socket, event, payload) ==
    [ to |-> "socket", event |-> event, payload |-> payload, socket |-> socket ]

CanHandle == started < MaxEvents

\* A variant of the limit check that still admits at the ceiling.
OverCapacity(count) == count > MAX_CONNECTIONS

\* the connection limit check
AtCapacity(count) == count >= MAX_CONNECTIONS

\* A variant of the admission that leaves the counter as it is.
NotCounted(count) == count

\* connectionCount++ and connectionCount--
Admitted(count) == count + 1

\* A variant of the disconnect handler that leaves the counter as it is.
StillCounted(count) == count

Disconnected(count) == count - 1

\* io.on('connection'); socket ids are handed out in order
Connection(s) ==
    /\ sockets[s] = "new"
    /\ \A o \in SocketIds : o < s => sockets[o] # "new"
    /\ CanHandle
    /\ started' = started + 1
    /\ IF AtCapacity(connectionCount)
       THEN /\ emits' = { Emit(s, "connection_rejected", "capacity_full") }
            /\ sockets' = [ sockets EXCEPT ![s] = "rejected" ]
            /\ UNCHANGED <<connectionCount, connections>>
       ELSE /\ connectionCount' = Admitted(connectionCount)
            /\ connections' = MapSet(connections, s, [ userId |-> None, activityIds |-> << >> ])
            /\ emits' = IF connectionCount' >= SOFT_LIMIT
                        THEN { Emit(s, "capacity_warning", "High traffic detected") }
                        ELSE {}
            /\ sockets' = [ sockets EXCEPT ![s] = "connected" ]
    /\ resp' = NoResp
    /\ UNCHANGED <<storeVars, tasks, activities, operationsInProgress, rooms,
                   leftCount, leaveCalls, isMongoConnected>>

----------------------------------------------------------------------------
(* socket.on('join_activity') *)

\* A variant of the test that lets every join through.
NeverJoined(s, activityId) == FALSE

\* connection && connection.activityIds.has(activityId)
AlreadyJoined(s, activityId) ==
    s \in DOMAIN connections /\ activityId \in Range(connections[s].activityIds)

JoinActivity(t, s, activityId, userId) ==
    /\ sockets[s] = "connected"
    /\ CanHandle /\ FreeTask(t)
    /\ started' = started + 1
    /\ IF AlreadyJoined(s, activityId)
       THEN /\ resp' = [ task |-> [ IdleTask EXCEPT !.kind = "join", !.userId = userId,
                                                     !.socket = s, !.activityId = activityId ],
                         error |-> "already joined" ]
            /\ UNCHANGED <<tasks, connections, activities, rooms, leftCount, leaveCalls>>
       ELSE /\ resp' = NoResp
            /\ connections' =
                 IF s \in DOMAIN connections
                 THEN [ connections EXCEPT ![s] =
                          [ userId |-> userId, activityIds |-> SetAdd(@.activityIds, activityId) ] ]
                 ELSE connections
            /\ activities' = AddMember(activities, activityId, userId)
            /\ rooms' = [ rooms EXCEPT ![s] = @ \cup {activityId} ]
            /\ tasks' = Begin(t, [ IdleTask EXCEPT !.kind = "join", !.pc = "find",
                                     !.userId = userId, !.socket = s,
                                     !.activityId = activityId ])
            /\ leftCount' = [ leftCount EXCEPT ![<<activityId, userId>>] = 0 ]
            /\ leaveCalls' = [ leaveCalls EXCEPT ![<<activityId, userId>>] = 0 ]
    /\ emits' = {}
    /\ UNCHANGED <<storeVars, connectionCount, operationsInProgress, sockets, isMongoConnected>>

JoinedEvent(task) ==
    Broadcast(task.activityId, "participant_joined",
              [ id |-> task.userId, isConnected |-> TRUE, hasSubmitted |-> FALSE ])

\* Activity.findById inside safeDbOperation; without a document the
\* handler goes straight to its broadcast
JoinFind(t) ==
    /\ tasks[t].kind = "join" /\ tasks[t].pc = "find"
    /\ LET doc == safeFindById(tasks[t].activityId)
       IN IF doc = NoDoc
          THEN /\ tasks' = End(t)
               /\ emits' = { JoinedEvent(tasks[t]) }
               /\ resp' = Respond(t, "skipped")
          ELSE /\ tasks' = [ tasks EXCEPT ![t].loaded = doc, ![t].pc = "save" ]
               /\ emits' = {}
               /\ resp' = NoResp
    /\ UNCHANGED <<storeVars, started, connVars>>

\* activity.addParticipant inside safeDbOperation, which swallows its
\* error, and the broadcast that follows
JoinSave(t) ==
    /\ tasks[t].kind = "join" /\ tasks[t].pc = "save"
    /\ LET r == Save(db, tasks[t].loaded, addParticipant(tasks[t].loaded, tasks[t].userId))
       IN /\ db' = r.doc
          /\ resp' = Respond(t, r.error)
    /\ emits' = { JoinedEvent(tasks[t]) }
    /\ tasks' = End(t)
    /\ UNCHANGED <<started, nextId, raced, lastRated, connVars>>

----------------------------------------------------------------------------
(* socket.on('leave_activity') *)

\* `leave_${activityId}_${userId}`
operationKey(activityId, userId) == "leave_" \o activityId \o "_" \o userId

LeaveActivity(t, s, activityId, userId) ==
    /\ sockets[s] = "connected"
    /\ CanHandle /\ FreeTask(t)
    /\ started' = started + 1
    /\ leaveCalls' = [ leaveCalls EXCEPT ![<<activityId, userId>>] = @ + 1 ]
    /\ IF operationKey(activityId, userId) \in operationsInProgress
       THEN UNCHANGED <<tasks, connections, activities, rooms, operationsInProgress>>
       ELSE /\ operationsInProgress' = operationsInProgress \cup { operationKey(activityId, userId) }
            /\ connections' =
                 IF s \in DOMAIN connections
                 THEN [ connections EXCEPT ![s].activityIds = SetDelete(@, activityId) ]
                 ELSE connections
            /\ activities' = RemoveMember(activities, activityId, userId)
            /\ rooms' = [ rooms EXCEPT ![s] = @ \ {activityId} ]
            /\ tasks' = Begin(t, [ IdleTask EXCEPT !.kind = "leave", !.pc = "find",
                                     !.userId = userId, !.socket = s,
                                     !.activityId = activityId ])
    /\ resp' = NoResp
    /\ emits' = {}
    /\ UNCHANGED <<storeVars, connectionCount, sockets, leftCount, isMongoConnected>>

LeftEvent(task, activityId) ==
    Broadcast(activityId, "participant_left", [ id |-> task.userId ])

\* A variant of the end of the handler without the finally block.
LeaveDoneKeeps(t) ==
    /\ emits' = { LeftEvent(tasks[t], tasks[t].activityId) }
    /\ leftCount' = [ leftCount EXCEPT ![<<tasks[t].activityId, tasks[t].userId>>] = @ + 1 ]
    /\ operationsInProgress' = operationsInProgress
    /\ tasks' = End(t)

\* the broadcast after safeDbOperation and the finally block
LeaveDone(t) ==
    /\ emits' = { LeftEvent(tasks[t], tasks[t].activityId) }
    /\ leftCount' = [ leftCount EXCEPT ![<<tasks[t].activityId, tasks[t].userId>>] = @ + 1 ]
    /\ operationsInProgress' =
         operationsInProgress \ { operationKey(tasks[t].activityId, tasks[t].userId) }
    /\ tasks' = End(t)

LeaveFind(t) ==
    /\ tasks[t].kind = "leave" /\ tasks[t].pc = "find"
    /\ LET doc == safeFindById(tasks[t].activityId)
       IN IF doc = NoDoc
          THEN /\ LeaveDone(t)
               /\ resp' = Respond(t, "skipped")
          ELSE /\ tasks' = [ tasks EXCEPT ![t].loaded = doc, ![t].pc = "save" ]
               /\ emits' = {}
               /\ resp' = NoResp
               /\ UNCHANGED <<leftCount, operationsInProgress>>
    /\ UNCHANGED <<storeVars, started, connectionCount, connections, activities, sockets,
                   rooms, leaveCalls, isMongoConnected>>

LeaveSave(t) ==
    /\ tasks[t].kind = "leave" /\ tasks[t].pc = "save"
    /\ LET r == Save(db, tasks[t].loaded,
                     updateParticipantConnection(tasks[t].loaded, tasks[t].userId, FALSE))
       IN /\ db' = r.doc
          /\ resp' = Respond(t, r.error)
    /\ LeaveDone(t)
    /\ UNCHANGED <<started, nextId, raced, lastRated, connectionCount, connections,
                   activities, sockets, rooms, leaveCalls, isMongoConnected>>

----------------------------------------------------------------------------
(* socket.on('disconnect') *)

\* after one activity of the loop: the synchronous part of the next
\* iteration, or connections.delete(socket.id) after the last one.  `task`
\* is the handler with the activity just processed entered in its record
\* of broadcasts (left) and of failed Store updates (failed).
DisconnectAdvance(t, task) ==
    IF task.todo = << >>
    THEN /\ connections' = MapDelete(connections, task.socket)
         /\ tasks' = End(t)
         /\ resp' = [ task |-> task, error |-> None ]
         /\ UNCHANGED activities
    ELSE /\ activities' = RemoveMember(activities, Head(task.todo), task.userId)
         /\ tasks' = [ tasks EXCEPT ![t] = [ task EXCEPT !.activityId = Head(task.todo),
                                                         !.todo = Tail(task.todo),
                                                         !.loaded = NoDoc,
                                                         !.pc = "find" ] ]
         /\ resp' = NoResp
         /\ UNCHANGED connections

\* the transport has removed the socket from io.sockets.sockets and from
\* its rooms when the handler runs
Disconnect(s) ==
    /\ sockets[s] = "connected"
    /\ CanHandle
    /\ started' = started + 1
    /\ sockets' = [ sockets EXCEPT ![s] = "closed" ]
    /\ rooms' = [ rooms EXCEPT ![s] = {} ]
    /\ connectionCount' = Disconnected(connectionCount)
    /\ IF /\ s \in DOMAIN connections
          /\ connections[s].userId # None
          /\ connections[s].activityIds # << >>
       THEN \E t \in TaskIds :
               /\ FreeTask(t)
               /\ activities' = RemoveMember(activities, Head(connections[s].activityIds),
                                             connections[s].userId)
               /\ tasks' = Begin(t, [ IdleTask EXCEPT
                                        !.kind = "disconnect", !.pc = "find",
                                        !.userId = connections[s].userId, !.socket = s,
                                        !.activityId = Head(connections[s].activityIds),
                                        !.todo = Tail(connections[s].activityIds),
                                        !.joined = connections[s].activityIds ])
               /\ UNCHANGED connections
       ELSE /\ connections' = MapDelete(connections, s)
            /\ UNCHANGED <<tasks, activities>>
    /\ resp' = NoResp
    /\ emits' = {}
    /\ UNCHANGED <<storeVars, operationsInProgress, leftCount, leaveCalls,
                   isMongoConnected>>

DisconnectFind(t) ==
    /\ tasks[t].kind = "disconnect" /\ tasks[t].pc = "find"
    /\ LET doc == safeFindById(tasks[t].activityId)
       IN IF doc = NoDoc
          THEN /\ emits' = { LeftEvent(tasks[t], tasks[t].activityId) }
               /\ DisconnectAdvance(t, [ tasks[t] EXCEPT
                                           !.left = Append(@, tasks[t].activityId),
                                           !.failed = Append(@, tasks[t].activityId) ])
          ELSE /\ tasks' = [ tasks EXCEPT ![t].loaded = doc, ![t].pc = "save" ]
               /\ emits' = {}
               /\ resp' = NoResp
               /\ UNCHANGED <<connections, activities>>
    /\ UNCHANGED <<storeVars, started, connectionCount, operationsInProgress, sockets, rooms,
                   leftCount, leaveCalls, isMongoConnected>>

DisconnectSave(t) ==
    /\ tasks[t].kind = "disconnect" /\ tasks[t].pc = "save"
    /\ LET r == Save(db, tasks[t].loaded,
                     updateParticipantConnection(tasks[t].loaded, tasks[t].userId, FALSE))
       IN /\ db' = r.doc
          /\ DisconnectAdvance(t, [ tasks[t] EXCEPT
                                      !.left = Append(@, tasks[t].activityId),
                                      !.failed = IF r.error = None THEN @
                                                 ELSE Append(@, tasks[t].activityId) ])
    /\ emits' = { LeftEvent(tasks[t], tasks[t].activityId) }
    /\ UNCHANGED <<started, nextId, raced, lastRated, connectionCount, operationsInProgress,
                   sockets, rooms, leftCount, leaveCalls, isMongoConnected>>

----------------------------------------------------------------------------
(* Stale connection cleanup, every STALE_CONNECTION_CLEANUP_INTERVAL *)

RECURSIVE RemoveFromAll(_, _, _)
RemoveFromAll(acts, activityIds, userId) ==
    IF activityIds = << >> THEN acts
    ELSE RemoveFromAll(RemoveMember(acts, Head(activityIds), userId), Tail(activityIds), userId)

RECURSIVE CleanStale(_, _)
CleanStale(acts, stale) ==
    IF stale = {} THEN acts
    ELSE LET s == CHOOSE x \in stale : TRUE
             cleaned == IF connections[s].userId # None
                        THEN RemoveFromAll(acts, connections[s].activityIds, connections[s].userId)
                        ELSE acts
         IN CleanStale(cleaned, stale \ {s})

StaleConnectionCleanup ==
    LET stale == { s \in DOMAIN connections : s \notin LiveSockets }
        cleaned == CleanStale(activities, stale)
    IN /\ stale # {}
       /\ connections' = [ s \in DOMAIN connections \ stale |-> connections[s] ]
       /\ activities' = [ a \in { x \in DOMAIN cleaned : cleaned[x] # {} } |-> cleaned[a] ]
       /\ resp' = NoResp
       /\ emits' = {}
       /\ UNCHANGED <<storeVars, tasks, started, connectionCount, operationsInProgress,
                      sockets, rooms, leftCount, leaveCalls, isMongoConnected>>

----------------------------------------------------------------------------
(* The real-time channel *)

ConnNext ==
    \/ \E s \in SocketIds : Connection(s)
    \/ \E s \in SocketIds : Disconnect(s)
    \/ StaleConnectionCleanup
    \/ \E t \in TaskIds :
        \/ \E s \in SocketIds, activityId \in ActivityIds, userId \in Users :
              JoinActivity(t, s, activityId, userId)
        \/ JoinFind(t)
        \/ JoinSave(t)
        \/ \E s \in SocketIds, activityId \in ActivityIds, userId \in Users :
              LeaveActivity(t, s, activityId, userId)
        \/ LeaveFind(t)
        \/ LeaveSave(t)
        \/ DisconnectFind(t)
        \/ DisconnectSave(t)

ConnSpec == ConnInit /\ [][ConnNext]_vars

\* joins, leaves and disconnects of two admitted clients on an activity
\* in use
LeaveInit == InitWith(InUse, {1, 2})

LeaveNext ==
    \/ \E s \in SocketIds : Disconnect(s)
    \/ \E t \in TaskIds :
        \/ \E s \in SocketIds, userId \in Users : JoinActivity(t, s, ObjectId, userId)
        \/ JoinFind(t)
        \/ JoinSave(t)
        \/ \E s \in SocketIds, userId \in Users : LeaveActivity(t, s, ObjectId, userId)
        \/ LeaveFind(t)
        \/ LeaveSave(t)
        \/ DisconnectFind(t)
        \/ DisconnectSave(t)

LeaveSpec == LeaveInit /\ [][LeaveNext]_vars

\* submissions of an admitted client that can disconnect while they await
\* the Store, next to a second client that joins the room
DropInit == InitWith(InUse, {1, 2})

DropNext ==
    \/ \E s \in SocketIds : Disconnect(s)
    \/ \E t \in TaskIds :
        \/ \E userId \in Users : JoinActivity(t, 2, ObjectId, userId)
        \/ JoinFind(t)
        \/ JoinSave(t)
        \/ \E userId \in Users :
              SubmitRating(t, 1, ObjectId, userId, [x |-> 9, y |-> 9],
                           [ slotNumber |-> 1, objectName |-> "" ])
        \/ AddRatingPullVotes(t)
        \/ AddRatingFind(t)
        \/ AddRatingRecount(t)
        \/ AddRatingPullRating(t)
        \/ AddRatingPush(t)
        \/ \E userId \in Users :
              SubmitComment(t, 1, ObjectId, userId, "hello",
                            [ slotNumber |-> 1, objectName |-> "" ])
        \/ HttpCommentSave(t)
        \/ DisconnectFind(t)
        \/ DisconnectSave(t)

DropSpec == DropInit /\ [][DropNext]_vars

\* joins and leaves of two admitted clients whose activityIds and userIds
\* hold the separator of the in-progress keys
KeyInit == InitWith(InUse, {1, 2})

\* two pairs with one in-progress key, and a pair of the stored activity
KeyPairs == { <<"x_y", "z">>, <<"x", "y_z">>, <<ObjectId, "A">> }

KeyNext ==
    \E t \in TaskIds :
        \/ \E s \in {1, 2}, k \in KeyPairs :
              \/ JoinActivity(t, s, k[1], k[2])
              \/ LeaveActivity(t, s, k[1], k[2])
        \/ JoinFind(t)
        \/ JoinSave(t)
        \/ LeaveFind(t)
        \/ LeaveSave(t)

KeySpec == KeyInit /\ [][KeyNext]_vars

\* every Store operation a leave_activity handler awaits is answered
LeaveFairness ==
    \A t \in TaskIds : WF_vars(LeaveFind(t)) /\ WF_vars(LeaveSave(t))

FairConnSpec == ConnSpec /\ LeaveFairness

----------------------------------------------------------------------------
(* The real-time channel while the Store connection is not established *)

\* let isMongoConnected = false, with a first client admitted
OutageInit == Started(InUse, {1}, FALSE)

OutageNext ==
    \/ \E s \in SocketIds : Connection(s)
    \/ \E s \in SocketIds : Disconnect(s)
    \/ StaleConnectionCleanup
    \/ \E t \in TaskIds :
        \/ \E s \in SocketIds, activityId \in ActivityIds, userId \in Users :
              JoinActivity(t, s, activityId, userId)
        \/ JoinFind(t)
        \/ \E s \in SocketIds, activityId \in ActivityIds, userId \in Users :
              LeaveActivity(t, s, activityId, userId)
        \/ LeaveFind(t)
        \/ DisconnectFind(t)
        \/ \E s \in SocketIds, userId \in Users, input \in SubmitInputs :
              SubmitRating(t, s, ObjectId, userId, input.position,
                           [ slotNumber |-> 1, objectName |-> input.objectName ])
        \/ \E s \in SocketIds, userId \in Users, text \in Texts :
              SubmitComment(t, s, ObjectId, userId, text,
                            [ slotNumber |-> 1, objectName |-> "" ])

OutageSpec == OutageInit /\ [][OutageNext]_vars

----------------------------------------------------------------------------
(* Properties *)

ParticipantRecords(doc, userId) ==
    { i \in DOMAIN doc.participants : doc.participants[i].id = userId }

RatingsOf(doc, userId, slotNumber) ==
    LET Mine(r) == r.userId = userId /\ r.slotNumber = slotNumber
    IN SelectSeq(doc.ratings, Mine)

\* the comments on which the user holds at least one vote
VotedComments(doc, userId) ==
    { i \in DOMAIN doc.comments :
        \E j \in DOMAIN doc.comments[i].votes : doc.comments[i].votes[j] = userId }

Finished(kind) == resp.task.kind = kind
Succeeded(kind) == resp.task.kind = kind /\ resp.error = None

\* C1: after any number of joins, also joins of one userId that interleave
\* at the Store, the activity holds exactly one Participant record for the
\* userId: never two, and one once a join of that userId has been saved.
C1_OneParticipantPerUser ==
    \A userId \in Users :
        /\ Cardinality(ParticipantRecords(db, userId)) <= 1
        /\ ( /\ resp.task.kind \in { "participants", "join" }
             /\ resp.task.userId = userId
             /\ resp.error = None )
           => Cardinality(ParticipantRecords(db, userId)) = 1

\* C2: after submitRating calls for a (user, slot) that each completed
\* before the next one started, exactly one Rating exists for the (user,
\* slot) and it holds the position of the most recent call.
C2_OneRatingMostRecent ==
    \A userId \in Users, slotNumber \in SlotNumbers :
        ( /\ lastRated[<<userId, slotNumber>>] # NoPosition
          /\ <<userId, slotNumber>> \notin raced
          /\ ~RatingInFlight(userId, slotNumber) )
        => /\ Len(RatingsOf(db, userId, slotNumber)) = 1
           /\ RatingsOf(db, userId, slotNumber)[1].position = lastRated[<<userId, slotNumber>>]

\* a completed submitRating that replaced an earlier Rating with another
\* position
C2_Witness ==
    /\ Succeeded("rating")
    /\ <<resp.task.userId, resp.task.slotNumber>> \notin raced
    /\ Len(RatingsOf(resp.task.loaded, resp.task.userId, resp.task.slotNumber)) = 1
    /\ RatingsOf(resp.task.loaded, resp.task.userId, resp.task.slotNumber)[1].position
         # resp.task.position

\* C3: when two submitRating calls for one (user, slot) interleave at the
\* Store, the final state has exactly one Rating for the (user, slot),
\* the one pushed last.
C3_OneRatingAfterRace ==
    \A userId \in Users, slotNumber \in SlotNumbers :
        ( /\ lastRated[<<userId, slotNumber>>] # NoPosition
          /\ ~RatingInFlight(userId, slotNumber) )
        => /\ Len(RatingsOf(db, userId, slotNumber)) = 1
           /\ RatingsOf(db, userId, slotNumber)[1].position = lastRated[<<userId, slotNumber>>]

\* C4: with votesPerUser = N, no voter holds a vote on more than N comments
\* of the activity, in any state of the Store.
C4_VoteCap ==
    db.votesPerUser # Null =>
        \A userId \in Users : Cardinality(VotedComments(db, userId)) <= db.votesPerUser

\* two votes of one voter on different comments were both loaded before
\* either was saved; the first took the voter to the cap and the second
\* was refused by the Store
C4_Witness ==
    /\ Finished("vote") /\ resp.error = "VersionError"
    /\ db.votesPerUser # Null
    /\ Cardinality(VotedComments(resp.task.loaded, resp.task.userId)) < db.votesPerUser
    /\ Cardinality(VotedComments(db, resp.task.userId)) = db.votesPerUser
    /\ \A i \in VotedComments(db, resp.task.userId) : db.comments[i].id # resp.task.commentId

\* C5: a comment never holds two votes of one voter, and a vote by a voter
\* who already has one on the comment removes it.
C5_OneVotePerVoter ==
    /\ \A i \in DOMAIN db.comments :
          \A j, k \in DOMAIN db.comments[i].votes :
              j # k => db.comments[i].votes[j] # db.comments[i].votes[k]
    /\ ( /\ Succeeded("vote")
         /\ \E i \in VotedComments(resp.task.loaded, resp.task.userId) :
               resp.task.loaded.comments[i].id = resp.task.commentId )
       => \A i \in VotedComments(db, resp.task.userId) :
               db.comments[i].id # resp.task.commentId

\* a double click: the second request loaded the comment before the first
\* was saved, and its save was refused
C5_Witness ==
    /\ Finished("vote") /\ resp.error = "VersionError"
    /\ \A i \in VotedComments(resp.task.loaded, resp.task.userId) :
          resp.task.loaded.comments[i].id # resp.task.commentId
    /\ \E i \in VotedComments(db, resp.task.userId) :
          /\ db.comments[i].id = resp.task.commentId
          /\ Cardinality({ j \in DOMAIN db.comments[i].votes :
                             db.comments[i].votes[j] = resp.task.userId }) = 1

OthersVotes(comment) == { j \in DOMAIN comment.votes : comment.votes[j] # comment.userId }

\* C6: when user A's comment for slot S holds votes of other users and A
\* calls submitRating for S, then after the call the comment holds no vote
\* of another user and its voteCount is the length of its vote list.
C6_Invalidation ==
    ( /\ Succeeded("rating")
      /\ \E i \in DOMAIN resp.task.loaded.comments :
            /\ resp.task.loaded.comments[i].userId = resp.task.userId
            /\ resp.task.loaded.comments[i].slotNumber = resp.task.slotNumber
            /\ OthersVotes(resp.task.loaded.comments[i]) # {} )
    => \A i \in DOMAIN db.comments :
          ( db.comments[i].userId = resp.task.userId /\
            db.comments[i].slotNumber = resp.task.slotNumber )
          => /\ OthersVotes(db.comments[i]) = {}
             /\ db.comments[i].voteCount = Len(db.comments[i].votes)

\* voteComment and its save() on a document nobody else writes
VoteOnce(doc, commentId, userId) ==
    LET vote == voteComment(doc, commentId, userId)
    IN IF vote.error # None THEN [ error |-> vote.error, doc |-> doc ]
       ELSE Save(doc, doc, vote.ops)

\* C7: voteComment(commentId, voterId) called twice in succession, the
\* first call succeeding, returns the comment to the set of voters and the
\* voteCount it had before; stated of the Store whenever no request is in
\* flight.
C7_ToggleLaw ==
    InFlight = {} =>
        \A i \in DOMAIN db.comments, userId \in Users :
            LET commentId == db.comments[i].id
                first == VoteOnce(db, commentId, userId)
                second == VoteOnce(first.doc, commentId, userId)
            IN first.error = None =>
                 /\ second.error = None
                 /\ Range(second.doc.comments[i].votes) = Range(db.comments[i].votes)
                 /\ second.doc.comments[i].voteCount = db.comments[i].voteCount


LeaveInFlight(activityId, userId) ==
    \E t \in TaskIds :
        /\ tasks[t].kind \in { "join", "leave", "disconnect" }
        /\ tasks[t].activityId = activityId
        /\ tasks[t].userId = userId

\* C8: once the leave_activity calls made for an (activityId, userId)
\* since its last join have all finished, however many there were,
\* exactly one participant_left was broadcast for them and the
\* Participant's isConnected flag is false.
C8_IdempotentLeave ==
    \A activityId \in ActivityIds, userId \in Users :
        ( /\ leaveCalls[<<activityId, userId>>] >= 1
          /\ ~LeaveInFlight(activityId, userId) )
        => /\ leftCount[<<activityId, userId>>] = 1
           /\ activityId = ObjectId =>
                \A i \in ParticipantRecords(db, userId) : ~db.participants[i].isConnected

Arrives(s) == sockets[s] = "new" /\ sockets'[s] # "new"

\* C9: the counter of admitted connections never exceeds MAX_CONNECTIONS,
\* and a connection arriving while the counter equals MAX_CONNECTIONS is
\* sent connection_rejected / capacity_full, is closed, gets no entry in
\* the connection registry and leaves the counter unchanged.
C9_CapacityLaw ==
    [][ /\ connectionCount <= MAX_CONNECTIONS
        /\ connectionCount' <= MAX_CONNECTIONS
        /\ \A s \in SocketIds :
              ( Arrives(s) /\ connectionCount = MAX_CONNECTIONS )
              => /\ emits' = { Emit(s, "connection_rejected", "capacity_full") }
                 /\ sockets'[s] = "rejected"
                 /\ s \notin DOMAIN connections'
                 /\ connections' = connections
                 /\ connectionCount' = connectionCount ]_vars

\* a connection has just been rejected at the ceiling
C9_Witness ==
    \E s \in SocketIds :
        /\ sockets[s] = "rejected"
        /\ emits = { Emit(s, "connection_rejected", "capacity_full") }
        /\ s \notin DOMAIN connections
        /\ connectionCount = MAX_CONNECTIONS

\* C10: the counter is the number of connections that were admitted and
\* have not disconnected (one increment per admission, one decrement per
\* disconnect of an admitted connection, none for a rejected connection),
\* and it is never negative.
C10_CounterLaw ==
    /\ connectionCount = Cardinality({ s \in SocketIds : sockets[s] = "connected" })
    /\ connectionCount >= 0

\* of the connections admitted one has disconnected and two have not
C10_Witness ==
    /\ \E s \in SocketIds : sockets[s] = "closed"
    /\ Cardinality({ s \in SocketIds : sockets[s] = "connected" }) = 2
    /\ connectionCount = 2


Mutations == { "participants", "join", "leave", "rating", "comment", "vote" }

\* C11: a handler of a mutation (join, leave, submitRating, submitComment,
\* voteComment, over HTTP or the socket) broadcasts its event only when its
\* Store write succeeded: a handler whose write failed, was skipped or was
\* given up after the retries ends without a broadcast.
C11_BroadcastAfterWrite ==
    ( resp.task.kind \in Mutations /\ emits # {} ) => resp.error = None


\* C12: submitRating takes effect atomically.  Every state of the Store is
\* one a concurrent request can read, so while a submitRating for a
\* (user, slot) is in flight the Store is never between its steps: the
\* rating it replaces is not gone before the new one is there, and the
\* user's comment for the slot never has its votes stripped while its
\* voteCount still counts them.
C12_AtomicRating ==
    \A t \in TaskIds :
        ( tasks[t].kind = "rating" /\ tasks[t].loaded # NoDoc ) =>
            LET userId == tasks[t].userId
                slotNumber == tasks[t].slotNumber
            IN /\ Len(RatingsOf(tasks[t].loaded, userId, slotNumber)) >= 1
                    => Len(RatingsOf(db, userId, slotNumber)) >= 1
               /\ \A i \in DOMAIN db.comments :
                     ( db.comments[i].userId = userId /\
                       db.comments[i].slotNumber = slotNumber )
                     => db.comments[i].voteCount = Len(db.comments[i].votes)


\* C13: a join for an activityId that no activity has creates no
\* Participant and broadcasts no participant_joined.
C13_JoinNotFound ==
    [][ \A t \in TaskIds :
          ( /\ tasks[t].kind = "join" /\ tasks[t].pc = "find"
            /\ tasks'[t] # tasks[t]
            /\ findById(tasks[t].activityId) = NoDoc )
          => /\ db' = db
             /\ \A e \in emits' : e.event # "participant_joined" ]_vars


\* C19: a join_activity for an activityId that is already in the
\* connection's joined set is a no-op: the joined set and the member sets
\* stay as they are, no handler goes on to the Store and nothing is
\* broadcast.
C19_RejoinNoOp ==
    [][ \A t \in TaskIds, s \in SocketIds, activityId \in ActivityIds, userId \in Users :
          ( /\ s \in DOMAIN connections
            /\ activityId \in Range(connections[s].activityIds)
            /\ JoinActivity(t, s, activityId, userId) )
          => /\ connections' = connections
             /\ activities' = activities
             /\ rooms' = rooms
             /\ tasks' = tasks
             /\ db' = db
             /\ emits' = {} ]_vars

\* a socket that has joined the activity has sent join_activity for it
\* again
C19_Witness ==
    /\ resp.task.kind = "join" /\ resp.error = "already joined"
    /\ resp.task.socket \in DOMAIN connections
    /\ resp.task.activityId \in Range(connections[resp.task.socket].activityIds)
    /\ resp.task.userId \in activities[resp.task.activityId]


CommentsOf(doc, userId, slotNumber) ==
    LET Mine(c) == c.userId = userId /\ c.slotNumber = slotNumber
    IN SelectSeq(doc.comments, Mine)

\* C20: the activity never holds two Comments of one (userId, slotNumber),
\* and a submitComment that succeeded has left, in place of any prior
\* Comment of the pair, a fresh one: an id no stored comment had, an empty
\* vote list and voteCount 0.
C20_OneCommentPerSlot ==
    /\ \A userId \in Users, slotNumber \in SlotNumbers :
          Len(CommentsOf(db, userId, slotNumber)) <= 1
    /\ Succeeded("comment") =>
          LET mine == CommentsOf(db, resp.task.userId, resp.task.slotNumber)
          IN /\ Len(mine) = 1
             /\ \A i \in DOMAIN resp.task.loaded.comments :
                   resp.task.loaded.comments[i].id # mine[1].id
             /\ mine[1].votes = << >>
             /\ mine[1].voteCount = 0


\* the disconnect handler t after the step: still in flight, or as it ended
AfterStep(t) == IF tasks'[t].kind = "disconnect" THEN tasks'[t] ELSE resp'.task

\* C17: the disconnect handler of a connection goes through every
\* activityId the connection had joined: a Store update that did not fail
\* leaves the user's Participant flag cleared, participant_left is
\* broadcast for the activity whether or not the update failed, and once
\* the last activity is done the connection is out of the registry.  A
\* connection that had joined nothing leaves the registry at once.
C17_DisconnectCleanup ==
    [][ /\ \A t \in TaskIds :
              ( tasks[t].kind = "disconnect" /\ tasks'[t] # tasks[t] ) =>
                  LET task == tasks[t]
                      after == AfterStep(t)
                      done == task.pc = "save" \/ after.left # task.left
                  IN /\ done => /\ LeftEvent(task, task.activityId) \in emits'
                                /\ after.left = Append(task.left, task.activityId)
                     /\ ( task.pc = "save" /\ task.activityId \notin Range(after.failed) )
                        => \A i \in ParticipantRecords(db', task.userId) :
                              ~db'.participants[i].isConnected
                     /\ ( done /\ tasks'[t].kind = "disconnect" )
                        => /\ after.activityId # task.activityId
                           /\ after.activityId \in Range(task.joined)
                     /\ tasks'[t].kind # "disconnect"
                        => /\ after.left = task.joined
                           /\ task.socket \notin DOMAIN connections'
        /\ \A s \in SocketIds :
              ( /\ sockets[s] = "connected" /\ sockets'[s] = "closed"
                /\ \A t \in TaskIds : tasks'[t] = tasks[t] )
              => s \notin DOMAIN connections' ]_vars


\* C18: a sweep of the stale connection cleanup treats every registry
\* connection that is not in the live transport's set as a disconnect:
\* for each activity it had joined the user's Participant flag is cleared
\* in the Store and participant_left is broadcast, the connection leaves
\* the registry, and afterwards no activity entry without members remains.
C18_SweepCleanup ==
    [][ StaleConnectionCleanup =>
          /\ \A s \in DOMAIN connections \ LiveSockets :
                /\ s \notin DOMAIN connections'
                /\ connections[s].userId # None =>
                      \A activityId \in Range(connections[s].activityIds) :
                          /\ Broadcast(activityId, "participant_left",
                                       [ id |-> connections[s].userId ]) \in emits'
                          /\ findById(activityId) # NoDoc =>
                                \A i \in ParticipantRecords(db', connections[s].userId) :
                                    ~db'.participants[i].isConnected
          /\ \A activityId \in DOMAIN activities' : activities'[activityId] # {} ]_vars


\* C14: while the activity's status is not active no submitRating,
\* submitComment or voteComment, over HTTP or the socket, changes the
\* stored ratings, comments or votes, and none broadcasts an event.
C14_ClosedActivity ==
    [][ db.status # "active" =>
          /\ db'.ratings = db.ratings
          /\ db'.comments = db.comments
          /\ emits' = {} ]_vars


\* what the client sent is not a submission the activity accepts: a rating
\* for a slot outside 1..maxEntries, with a coordinate outside [0, 1] or
\* by a user who is no participant, or a comment whose trimmed text is
\* empty or longer than 500 characters
InvalidSubmission(task) ==
    \/ /\ task.kind = "rating"
       /\ \/ task.payload.slotNumber < 1
          \/ task.payload.slotNumber > task.loaded.maxEntries
          \/ ~ValidPosition(task.position)
          \/ ~IsParticipant(task.loaded, task.userId)
    \/ /\ task.kind = "comment"
       /\ ~ValidText(task.text)

\* C15: a submitRating or submitComment with such input is rejected on
\* every entry path: no step of its handler changes the Store or
\* broadcasts an event.
C15_InvalidRejected ==
    [][ \A t \in TaskIds :
          ( tasks'[t] # tasks[t] /\ InvalidSubmission(tasks[t]) )
          => db' = db /\ emits' = {} ]_vars


\* POST /:id/rating and POST /:id/comment run to their end on a document
\* nobody else writes: the document they leave in the Store
HttpRatingOutcome(doc, userId, position, objectName, slotNumber, ratingId) ==
    IF RatingRejection(doc, userId, position, slotNumber) # None THEN doc
    ELSE LET pulled == pullOthersVotes(doc, userId, slotNumber)
             counted == Save(pulled, pulled, recountVotes(pulled, userId, slotNumber)).doc
         IN pushRating(pullRating(counted, userId, objectName, slotNumber),
                       NewRating(ratingId, userId, objectName, slotNumber, position))

HttpCommentOutcome(doc, userId, text, objectName, slotNumber, commentId) ==
    IF TextRejection(text) # None \/ CommentRejection(doc, userId, slotNumber) # None THEN doc
    ELSE Save(doc, doc, addComment(doc, userId, Trim(text), objectName, slotNumber, commentId)).doc

\* C16: a submit_rating or submit_comment received on the socket leaves
\* the Store in the state the HTTP route leaves it in when called with the
\* same payload (userId, slotNumber, position or text, objectName) on the
\* same prior state; stated of a submission that ran alone.
C16_SameOutcome ==
    ( /\ started = 1 /\ InFlight = {}
      /\ resp.task.path = "ws" /\ resp.task.loaded # NoDoc )
    => LET task == resp.task
           id == FirstFreeId(task.loaded)
       IN /\ task.kind = "rating" =>
                db = HttpRatingOutcome(task.loaded, task.userId, task.position,
                                       task.payload.objectName, task.payload.slotNumber, id)
          /\ task.kind = "comment" =>
                db = HttpCommentOutcome(task.loaded, task.userId, task.text,
                                        task.payload.objectName, task.payload.slotNumber, id)


\* the request is a new vote: the comment exists in the document the
\* handler loaded and the voter has no vote on it
NewVote(task) ==
    \E i \in DOMAIN task.loaded.comments :
        /\ task.loaded.comments[i].id = task.commentId
        /\ task.userId \notin Range(task.loaded.comments[i].votes)

\* the request takes back a vote the voter has on the comment
ToggleOff(task) ==
    \E i \in VotedComments(task.loaded, task.userId) :
        task.loaded.comments[i].id = task.commentId

AtCap(doc, userId) ==
    doc.votesPerUser # Null /\ Cardinality(VotedComments(doc, userId)) >= doc.votesPerUser

\* C21: a new vote by a voter who already holds votesPerUser votes fails
\* with the vote-limit error, changes no comment's vote list or voteCount
\* and broadcasts no comment_voted; a vote that takes back one of the
\* voter's votes is never refused by the limit.
C21_VoteLimit ==
    [][ \A t \in TaskIds :
          ( tasks[t].kind = "vote" /\ tasks'[t] # tasks[t] ) =>
              /\ ( NewVote(tasks[t]) /\ AtCap(tasks[t].loaded, tasks[t].userId) )
                 => /\ resp'.error = "Vote limit reached"
                    /\ db'.comments = db.comments
                    /\ emits' = {}
              /\ ToggleOff(tasks[t]) => resp'.error # "Vote limit reached" ]_vars

\* a voter at the limit has asked for a vote on another comment and was
\* refused
C21_Witness ==
    /\ Finished("vote") /\ resp.error = "Vote limit reached"
    /\ NewVote(resp.task)
    /\ AtCap(resp.task.loaded, resp.task.userId)
    /\ emits = {}


\* the entries of a list of ratings or comments that are not the user's
\* for the slot
NotOf(entries, userId, slotNumber) ==
    LET Other(x) == ~(x.userId = userId /\ x.slotNumber = slotNumber)
    IN SelectSeq(entries, Other)

\* C22: the write of a slot-clear for (userId, slot) removes the user's
\* Rating and Comment for that slot and changes nothing else: the user's
\* ratings and comments for other slots and every other user's ratings and
\* comments are in the Store after the write as they were before it.
C22_ClearSlotFrame ==
    [][ \A t \in TaskIds :
          ( tasks[t].kind = "slot" /\ tasks'[t] # tasks[t] /\ resp'.error = None ) =>
              /\ db'.ratings = NotOf(db.ratings, tasks[t].userId, tasks[t].slotNumber)
              /\ db'.comments = NotOf(db.comments, tasks[t].userId, tasks[t].slotNumber) ]_vars


\* the handler of task t starts in this step
Starts(t, kind) == tasks[t].kind = "idle" /\ tasks'[t].kind = kind

\* the handler of task t ends in this step
Ends(t, kind) == tasks[t].kind = kind /\ tasks'[t].kind = "idle"

\* the registry and the room hold the user for the activity on the socket
Registered(conns, acts, rms, s, activityId, userId) ==
    /\ s \in DOMAIN conns => activityId \in Range(conns[s].activityIds)
    /\ activityId \in DOMAIN acts /\ userId \in acts[activityId]
    /\ activityId \in rms[s]

\* neither the registry nor the room holds the user for the activity on
\* the socket
Unregistered(conns, acts, rms, s, activityId, userId) ==
    /\ s \in DOMAIN conns => activityId \notin Range(conns[s].activityIds)
    /\ activityId \in DOMAIN acts => userId \notin acts[activityId]
    /\ activityId \notin rms[s]

\* C23: while the Store is unavailable, a join_activity enters the user in
\* the registry and the room in one step and ends with participant_joined,
\* a leave_activity removes the user from the registry and the room in one
\* step and ends with participant_left, a submit_rating or submit_comment
\* is skipped with no broadcast and no handler left running, and the Store
\* is never written.
C23_StoreUnavailable ==
    [][ ~isMongoConnected =>
          /\ db' = db
          /\ \A t \in TaskIds :
               /\ Starts(t, "join") =>
                    Registered(connections', activities', rooms', tasks'[t].socket,
                               tasks'[t].activityId, tasks'[t].userId)
               /\ Ends(t, "join") =>
                    /\ emits' = { JoinedEvent(tasks[t]) }
                    /\ resp'.error = "skipped"
               /\ Starts(t, "leave") =>
                    Unregistered(connections', activities', rooms', tasks'[t].socket,
                                 tasks'[t].activityId, tasks'[t].userId)
               /\ Ends(t, "leave") =>
                    /\ emits' = { LeftEvent(tasks[t], tasks[t].activityId) }
                    /\ resp'.error = "skipped"
               /\ tasks'[t].kind \notin { "rating", "comment" }
          /\ resp'.task.path = "ws" =>
               /\ resp'.error = "skipped"
               /\ emits' = {}
               /\ UNCHANGED <<tasks, connections, activities, rooms>> ]_vars

\* a join has ended with its broadcast without the Store
C23_Witness ==
    /\ ~isMongoConnected
    /\ resp.task.kind = "join" /\ resp.error = "skipped"
    /\ emits = { JoinedEvent(resp.task) }
    /\ Registered(connections, activities, rooms, resp.task.socket,
                  resp.task.activityId, resp.task.userId)


LeaveRunning(activityId, userId) ==
    \E t \in TaskIds : /\ tasks[t].kind = "leave"
                       /\ tasks[t].activityId = activityId
                       /\ tasks[t].userId = userId

\* C25: a leave marker is in the in-progress set exactly while the
\* leave_activity handler that set it is running, so that with no leave
\* handler running the set holds no leave marker; a leave_activity received
\* while its marker is set returns without touching the marker or starting
\* a handler; and every marker set is eventually removed, whether the Store
\* update succeeds, is skipped or throws.
C25_LeaveMarker ==
    /\ [] ( \A a \in ActivityIds, u \in Users :
              operationKey(a, u) \in operationsInProgress <=> LeaveRunning(a, u) )
    /\ [][ \A a \in ActivityIds, u \in Users :
             ( leaveCalls'[<<a, u>>] = leaveCalls[<<a, u>>] + 1
               /\ operationKey(a, u) \in operationsInProgress ) =>
                 /\ operationsInProgress' = operationsInProgress
                 /\ tasks' = tasks
                 /\ emits' = {} ]_vars
    /\ \A a \in ActivityIds, u \in Users :
          ( operationKey(a, u) \in operationsInProgress )
             ~> ( operationKey(a, u) \notin operationsInProgress )

\* a leave whose Store update threw has ended and its marker is gone, and
\* a second leave for the key had been dropped meanwhile
C25_Witness ==
    /\ resp.task.kind = "leave" /\ resp.error = "VersionError"
    /\ operationKey(resp.task.activityId, resp.task.userId) \notin operationsInProgress
    /\ leaveCalls[<<resp.task.activityId, resp.task.userId>>] = 2
    /\ leftCount[<<resp.task.activityId, resp.task.userId>>] = 1


\* the socket is admitted in this step
Admits(s) == sockets[s] = "new" /\ sockets'[s] = "connected"

CapacityWarning(s) == Emit(s, "capacity_warning", "High traffic detected")

\* C26: a connection that is admitted is sent capacity_warning exactly when
\* the counter after its admission is at least floor(0.8 * ceiling); the
\* warning goes only to an admitted connection, and the admission with or
\* without it adds one to the counter, enters the socket in the registry
\* and changes no other entry of the registry.
C26_CapacityWarning ==
    [][ \A s \in SocketIds :
          /\ Admits(s) =>
               /\ CapacityWarning(s) \in emits'
                    <=> connectionCount' >= (8 * MAX_CONNECTIONS) \div 10
               /\ connectionCount' = connectionCount + 1
               /\ connections' = MapSet(connections, s,
                                        [ userId |-> None, activityIds |-> << >> ])
               /\ activities' = activities
               /\ emits' \subseteq { CapacityWarning(s) }
          /\ CapacityWarning(s) \in emits' => Admits(s) ]_vars

\* a connection has been admitted below the soft limit without the warning,
\* and the next one with it
C26_Witness ==
    /\ connectionCount >= 2 /\ connectionCount >= SOFT_LIMIT
    /\ \E s \in SocketIds :
         /\ sockets[s] = "connected" /\ CapacityWarning(s) \in emits
         /\ \E o \in DOMAIN connections : o # s /\ sockets[o] = "connected"


\* C27: in every persisted state, also in those reached by interleaving a
\* voteComment by one user with a submitRating or submitComment of the
\* comment's owner, every comment's voteCount is the number of votes in its
\* vote list.  Stated for the states the Store is left in when every
\* request has ended.
C27_VoteCountCache ==
    InFlight = {} =>
        \A i \in DOMAIN db.comments :
            db.comments[i].voteCount = Len(db.comments[i].votes)


\* the events of the set that carry the name
Events(es, event) == { e \in es : e.event = event }

\* C28: when a submit_rating received over the socket has been written to
\* the Store, rating_added is broadcast to the activity's room with the
\* Rating just stored (its new id, the submitted position), also when it is
\* the user's first rating, and comment_updated is broadcast exactly when
\* the user has a comment for the slot.
C28_SocketRatingBroadcast ==
    [][ \A t \in TaskIds :
          ( Ends(t, "rating") /\ tasks[t].path = "ws" /\ resp'.error = None ) =>
              /\ \E i \in DOMAIN db'.ratings :
                   /\ db'.ratings[i].id = nextId
                   /\ db'.ratings[i].position = tasks[t].position
                   /\ Events(emits', "rating_added")
                        = { Broadcast(tasks[t].activityId, "rating_added", db'.ratings[i]) }
              /\ Events(emits', "comment_updated") # {}
                   <=> CommentsOf(db', tasks[t].userId, tasks[t].slotNumber) # << >> ]_vars


\* the votes of the list cast by the user
VotesBy(votes, userId) ==
    LET Mine(v) == v = userId
    IN SelectSeq(votes, Mine)

\* C29: no Store operation of a submitRating by a user for a slot removes
\* the user's own vote from the user's comment for the slot or changes that
\* comment's text or id, and none changes the vote list or the voteCount of
\* any other comment or any Rating other than the user's for the slot.
C29_RatingFrame ==
    [][ \A t \in TaskIds :
          ( tasks[t].kind = "rating" /\ tasks'[t] # tasks[t] ) =>
              /\ DOMAIN db'.comments = DOMAIN db.comments
              /\ \A i \in DOMAIN db.comments :
                   IF /\ db.comments[i].userId = tasks[t].userId
                      /\ db.comments[i].slotNumber = tasks[t].slotNumber
                   THEN /\ db'.comments[i].id = db.comments[i].id
                        /\ db'.comments[i].text = db.comments[i].text
                        /\ VotesBy(db'.comments[i].votes, tasks[t].userId)
                             = VotesBy(db.comments[i].votes, tasks[t].userId)
                   ELSE /\ db'.comments[i].votes = db.comments[i].votes
                        /\ db'.comments[i].voteCount = db.comments[i].voteCount
              /\ NotOf(db'.ratings, tasks[t].userId, tasks[t].slotNumber)
                   = NotOf(db.ratings, tasks[t].userId, tasks[t].slotNumber) ]_vars

\* a submitRating has ended that stripped another user's vote from the
\* user's comment and kept the user's own
C29_Witness ==
    /\ Succeeded("rating")
    /\ \E i \in DOMAIN db.comments, j \in DOMAIN resp.task.loaded.comments :
         /\ db.comments[i].userId = resp.task.userId
         /\ db.comments[i].slotNumber = resp.task.slotNumber
         /\ db.comments[i].votes = << resp.task.userId >>
         /\ resp.task.loaded.comments[j].id = db.comments[i].id
         /\ Len(resp.task.loaded.comments[j].votes) = 2


\* C30: no Store write of a leave_activity or disconnect handler removes or
\* adds a Participant record or changes a participant's userId or
\* hasSubmitted flag, a Rating, a Comment or a vote; the only thing it
\* changes is the connectivity flag of the leaving user, which it sets to
\* false.
C30_LeaveFrame ==
    [][ \A t \in TaskIds :
          ( tasks[t].kind \in { "leave", "disconnect" } /\ tasks'[t] # tasks[t] ) =>
              /\ db'.ratings = db.ratings
              /\ db'.comments = db.comments
              /\ DOMAIN db'.participants = DOMAIN db.participants
              /\ \A i \in DOMAIN db.participants :
                   /\ db'.participants[i].id = db.participants[i].id
                   /\ db'.participants[i].hasSubmitted = db.participants[i].hasSubmitted
                   /\ \/ db'.participants[i].isConnected = db.participants[i].isConnected
                      \/ /\ db.participants[i].id = tasks[t].userId
                         /\ ~db'.participants[i].isConnected ]_vars

\* a leave has set the flag of the leaving user in an activity that holds
\* ratings, comments and votes, and the other participant is still
\* connected
C30_Witness ==
    /\ Succeeded("leave")
    /\ db.ratings # << >> /\ db.comments # << >>
    /\ \E i, j \in DOMAIN db.participants :
         /\ db.participants[i].id = resp.task.userId /\ ~db.participants[i].isConnected
         /\ db.participants[j].id # resp.task.userId /\ db.participants[j].isConnected


\* the submission of task t came over a socket that has disconnected since
Orphaned(t, kind) ==
    /\ tasks[t].kind = kind /\ tasks[t].path = "ws"
    /\ sockets[tasks[t].socket] = "closed"

\* C31: a disconnect leaves the submit_rating and submit_comment handlers
\* of its connection running, and a submission that ends after its
\* connection has disconnected has written its Rating or Comment to the
\* Store and broadcasts rating_added or comment_added to the room.
C31_SubmitSurvivesDisconnect ==
    [][ \A t \in TaskIds :
          /\ ( tasks[t].kind \in { "rating", "comment" } /\ sockets' # sockets )
               => tasks'[t] = tasks[t]
          /\ ( Orphaned(t, "rating") /\ Ends(t, "rating") /\ resp'.error = None ) =>
               /\ \E i \in DOMAIN db'.ratings : db'.ratings[i].id = nextId
               /\ Events(emits', "rating_added") # {}
          /\ ( Orphaned(t, "comment") /\ Ends(t, "comment") /\ resp'.error = None ) =>
               /\ \E i \in DOMAIN db'.comments : db'.comments[i].id = nextId
               /\ Events(emits', "comment_added") # {} ]_vars


\* the members the registry holds for the activity
MembersOf(acts, activityId) ==
    IF activityId \in DOMAIN acts THEN acts[activityId] ELSE {}

\* C32: a step of a join or leave for an activity changes the member set
\* of no other activity and, when the activity is not the stored one,
\* nothing in the Store; and a leave_activity for (activityId, userId) is
\* dropped only while a leave for that same pair is in progress, whatever
\* characters the two ids hold.
C32_NoCrossActivity ==
    [][ /\ \A t \in TaskIds :
             ( ( tasks[t].kind \in { "join", "leave" } /\ tasks'[t] # tasks[t] )
               \/ Starts(t, "join") \/ Starts(t, "leave") ) =>
                 LET a == IF tasks[t].kind = "idle" THEN tasks'[t].activityId
                          ELSE tasks[t].activityId
                 IN /\ \A b \in (ActivityIds \cup KeyActivityIds) \ {a} :
                         MembersOf(activities', b) = MembersOf(activities, b)
                    /\ a # db.oid => db' = db
        /\ \A k \in LeaveKeys :
             ( leaveCalls'[k] = leaveCalls[k] + 1 /\ tasks' = tasks )
                 => LeaveRunning(k[1], k[2]) ]_vars


\* some registered connection has joined the activity as the user
JoinedAs(activityId, userId) ==
    \E s \in DOMAIN connections :
        connections[s].userId = userId /\ activityId \in Range(connections[s].activityIds)

\* C33: when the disconnect handler of a connection that had joined the
\* stored activity has ended with no Store update failed, no handler is in
\* flight and no registered connection has joined the activity as the
\* user, the user's Participant is stored as not connected.
C33_DisconnectedFlag ==
    ( /\ resp.task.kind = "disconnect"
      /\ InFlight = {}
      /\ db.oid \in Range(resp.task.joined)
      /\ db.oid \notin Range(resp.task.failed)
      /\ ~JoinedAs(db.oid, resp.task.userId) )
    => \A i \in ParticipantRecords(db, resp.task.userId) : ~db.participants[i].isConnected


\* C34: a userId is in an activity's member set only while some registered
\* connection has the activity in its joined set; so with no handler in
\* flight, no connection registered and none live, the member map is empty.
C34_MembersHaveConnections ==
    ( InFlight = {} /\ DOMAIN connections = {} /\ LiveSockets = {} )
    => DOMAIN activities = {}


\* a registered connection other than s has joined the activity as the user
OtherJoinedAs(s, activityId, userId) ==
    \E o \in DOMAIN connections \ {s} :
        connections[o].userId = userId /\ activityId \in Range(connections[o].activityIds)

\* the connection s has joined the activity as the user
SocketJoinedAs(s, activityId, userId) ==
    /\ s \in DOMAIN connections
    /\ connections[s].userId = userId
    /\ activityId \in Range(connections[s].activityIds)

\* C35: when a connection that joined an activity as a user leaves it or
\* disconnects while another registered connection is joined to the
\* activity as the same user, the user stays in the activity's member set,
\* and the Store update of the disconnect handler leaves the user's
\* Participant connected.
C35_SharedUserStays ==
    [][ \A t \in TaskIds :
          /\ ( ( Starts(t, "leave") \/ Starts(t, "disconnect") )
               /\ SocketJoinedAs(tasks'[t].socket, tasks'[t].activityId, tasks'[t].userId)
               /\ OtherJoinedAs(tasks'[t].socket, tasks'[t].activityId, tasks'[t].userId) )
             => tasks'[t].userId \in MembersOf(activities', tasks'[t].activityId)
          /\ ( tasks[t].kind = "disconnect" /\ tasks[t].pc = "save"
               /\ tasks'[t] # tasks[t]
               /\ tasks[t].activityId \in Range(tasks[t].joined)
               /\ OtherJoinedAs(tasks[t].socket, tasks[t].activityId, tasks[t].userId) )
             => \A i \in ParticipantRecords(db, tasks[t].userId) :
                   db'.participants[i].isConnected = db.participants[i].isConnected ]_vars

\* the connection s is registered and has joined no activity since it was
\* admitted
JoinedNothing(s) == s \in DOMAIN connections /\ connections[s].userId = None

\* C36: a leave_activity whose sending connection has not joined the named
\* activity as the named user leaves every member set as it was, and the
\* handler of a leave sent by a connection that never joined anything ends
\* without a broadcast and without storing a Participant as disconnected.
C36_LeaveOnlyOwn ==
    [][ \A t \in TaskIds :
          /\ ( Starts(t, "leave")
               /\ ~SocketJoinedAs(tasks'[t].socket, tasks'[t].activityId, tasks'[t].userId) )
             => activities' = activities
          /\ ( Ends(t, "leave") /\ JoinedNothing(tasks[t].socket) )
             => /\ emits' = {}
                /\ \A i \in DOMAIN db.participants :
                      db.participants[i].isConnected
                        => /\ i \in DOMAIN db'.participants
                           /\ db'.participants[i].isConnected ]_vars


\* the comments of the document other than the user's comment for the slot
OtherComments(doc, userId, slotNumber) ==
    { c \in Range(doc.comments) : ~(c.userId = userId /\ c.slotNumber = slotNumber) }

DisconnectInProgress == \E t \in TaskIds : tasks[t].kind = "disconnect"

\* C39: whenever no disconnect handler is in progress, connectionCount
\* is the number of entries of the connection registry.
C39_CountIsRegistrySize ==
    ~DisconnectInProgress => connectionCount = Cardinality(DOMAIN connections)

\* a connection that joined nothing has disconnected, a stale entry has
\* been removed, and another connection is registered
C39_Witness ==
    /\ ~DisconnectInProgress
    /\ \E s \in SocketIds : sockets[s] = "closed" /\ s \notin DOMAIN connections
    /\ \E s \in SocketIds : sockets[s] = "connected" /\ JoinedNothing(s)
    /\ connectionCount = 1


----------------------------------------------------------------------------
(* The statistics interval next to leave_activity *)

\* operationsInProgress.size > 50
StaleOperations == 50

\* the callback of the statistics interval: it logs, and clears
\* operationsInProgress when it holds more than StaleOperations keys
StatsInterval ==
    /\ operationsInProgress' =
         IF Cardinality(operationsInProgress) > StaleOperations THEN {}
         ELSE operationsInProgress
    /\ operationsInProgress' # operationsInProgress
    /\ resp' = NoResp
    /\ emits' = {}
    /\ UNCHANGED <<storeVars, tasks, started, connectionCount, connections, activities,
                   sockets, rooms, leftCount, leaveCalls, isMongoConnected>>

\* users of other clients whose leave_activity handlers are awaiting the
\* Store: each has set its key and has not reached its finally block
SlowLeavers == { "u" \o ToString(i) : i \in 1..StaleOperations }

\* two admitted clients, while the leaves of the SlowLeavers are in
\* progress
SweepInit ==
    /\ db = InUse
    /\ nextId = FirstFreeId(db)
    /\ tasks = [ t \in TaskIds |-> IdleTask ]
    /\ started = 0
    /\ resp = NoResp
    /\ raced = {}
    /\ lastRated = [ k \in Users \X SlotNumbers |->
                       LET Mine(r) == r.userId = k[1] /\ r.slotNumber = k[2]
                           i == FindIndex(db.ratings, Mine)
                       IN IF i = 0 THEN NoPosition ELSE db.ratings[i].position ]
    /\ connectionCount = 2
    /\ connections = [ s \in {1, 2} |-> [ userId |-> None, activityIds |-> << >> ] ]
    /\ activities = [ a \in {} |-> {} ]
    /\ operationsInProgress = { operationKey(ObjectId, u) : u \in SlowLeavers }
    /\ sockets = [ s \in SocketIds |-> IF s \in {1, 2} THEN "connected" ELSE "new" ]
    /\ rooms = [ s \in SocketIds |-> {} ]
    /\ emits = {}
    /\ leftCount = [ k \in LeaveKeys |-> 0 ]
    /\ leaveCalls = [ k \in LeaveKeys |-> 0 ]
    /\ isMongoConnected = TRUE

SweepNext ==
    \/ StatsInterval
    \/ \E t \in TaskIds :
        \/ \E s \in {1, 2}, userId \in Users : LeaveActivity(t, s, ObjectId, userId)
        \/ LeaveFind(t)
        \/ LeaveSave(t)

SweepSpec == SweepInit /\ [][SweepNext]_vars

\* C40: no two leave_activity handlers for one (activityId, userId) are
\* running at the same time, and a step takes the key of a running
\* handler out of operationsInProgress only when the set holds more than
\* StaleOperations keys.
C40_OneLeavePerKey ==
    [][ /\ \A t, o \in TaskIds :
             ( /\ t # o
               /\ tasks'[t].kind = "leave" /\ tasks'[o].kind = "leave"
               /\ tasks'[t].activityId = tasks'[o].activityId )
             => tasks'[t].userId # tasks'[o].userId
        /\ \A t \in TaskIds :
             ( /\ tasks[t].kind = "leave" /\ tasks'[t].kind = "leave"
               /\ operationKey(tasks[t].activityId, tasks[t].userId) \in operationsInProgress
               /\ operationKey(tasks[t].activityId, tasks[t].userId) \notin operationsInProgress' )
             => Cardinality(operationsInProgress) > StaleOperations ]_vars

====
